---- MODULE Spec2Model ----
(***************************************************************************)
(* State-machine model of the session activity indicator:                  *)
(*   - hooks_sessionindicator/unstick.py : UnstickHandler and              *)
(*     wait_for_unstick_or_complete   (specifications SpecUnstick for one  *)
(*     handler with the clock and the signals, SpecInstall for concurrent  *)
(*     calls sharing handlers)                                             *)
(*   - hooks_sessionindicator/hook.py : the display lifecycle of           *)
(*     SessionIndicatorHook (session:start, session:end, _update_loop)     *)
(*     on one asyncio event loop          (specification SpecRefresh)      *)
(*   - hooks_sessionindicator/hook.py : the SessionState lock under        *)
(*     preemptive interleaving            (specification SpecLock)         *)
(*   - hooks_sessionindicator/hook.py : on_event and the event handlers,  *)
(*     one whole call per step            (specification SpecHook)         *)
(*   - hooks_sessionindicator/terminal.py : one StatusLine driven          *)
(*     directly                           (specification SpecSink)         *)
(*   - hooks_sessionindicator/spinner.py : Spinner and StatusSpinner       *)
(*                                        (specification SpecSpinner)      *)
(*   - amplifier_module_hooks_sessionindicator/__init__.py : the hook     *)
(*     that refreshes from a thread       (specification SpecModule)       *)
(* SpecRefreshFair is SpecRefresh on an event loop that runs whatever      *)
(* stays ready to run.                                                     *)
(* Every specification leaves the variables of the other parts unchanged.  *)
(***************************************************************************)
EXTENDS Integers, Sequences, FiniteSets, TLC

\* ------------------------------------------------------------------ bounds
\* Wall-clock time in whole seconds, 0..MaxTime.
MaxTime == 3
\* Largest interrupt count the model lets a handler reach.
MaxCount == 3
\* Number of session:start events (each creates a StatusLine and a refresh task)
\* and of session:end events one run delivers.
MaxSessions == 2
MaxEnds == 2
\* Columns of the terminal (get_terminal_width()).
Width == 6
\* Number of events one run delivers to on_event under the thread interleaving.
MaxEvents == 2
\* Largest sum of the two token counters, and largest turn counter, the
\* event-by-event model lets the state reach.
MaxTokens == 2
MaxTurns == 1
\* Wall-clock time of the event-by-event model, 0..MaxHookTime.
MaxHookTime == 1
\* Largest number of next_frame calls counted on a spinner.
MaxCalls == 11

\* --------------------------------------------------------------- constants
\* unstick.py:67  self._escalation_window = 2.0  (seconds)
EscalationWindow == 2

None == "None"
\* unstick.py:66  self._last_interrupt = None : the time that stands for None
NoTime == -1

\* The UnstickHandler instances of the process and the concurrent callers of
\* wait_for_unstick_or_complete.
Handlers == {"A", "B"}
Waiters == {"w1", "w2"}

\* What signal.getsignal(SIGINT) can find in place before any UnstickHandler is
\* installed: a handler installed from Python (signal.default_int_handler, which
\* the interpreter sets up; SIG_DFL and SIG_IGN are restored the same way), or a
\* handler that was not installed from Python.
PriorHandlers == {"default_int_handler", "NonPython"}

VARIABLES
    \* ---- unstick.py
    now,              \* datetime.now(), in seconds
    on_exit,          \* an exit callback was supplied to the handlers
    on_cancel,        \* a cancel callback was supplied to the handlers
    on_abort,         \* an abort callback was supplied to the handlers
    interrupt_count,  \* h._interrupt_count
    last_interrupt,   \* h._last_interrupt (NoTime or a time)
    original_handler, \* h._original_handler (None or a handler value)
    installed,        \* h._installed
    sigint,           \* the process's SIGINT handler (a PriorHandlers value, or
                      \* h for the bound method h._handle_sigint)
    dispatched,       \* what the last delivered SIGINT did
    wpc,              \* position of each wait_for_unstick_or_complete call
    whandler,         \* the handler argument of each call
    task_done,        \* task.done() of the awaited task of each call
    wreturn,          \* the last call that ended: its waiter, how it ended, and
                      \* task.done() and the exception in flight at that moment
    pre_install,      \* history: the process handler in place right before the
                      \* latest effective install() of h
    fresh_install,    \* history: h was installed and has handled no signal since
    \* ---- hook.py, terminal.py: the display lifecycle on the event loop
    enabled,          \* hook._enabled = supports_status_line()
    position,         \* hook._position: "bottom" or "inline"
    running,          \* hook._running
    update_task,      \* hook._update_task: None or a task
    status_line,      \* hook._status_line: None or a StatusLine
    nsessions,        \* number of session:start events handled so far; the k-th
                      \* creates StatusLine k and refresh task k
    tstate,           \* tstate[t]: where refresh task t is
    tcancel,          \* tcancel[t]: cancel() was called on t and not yet delivered
    sink,             \* sink[k]: [visible, last] = _visible, _last_content
    stream,           \* sys.stderr: "ok", "broken" (writes raise OSError) or
                      \* "closed" (writes raise ValueError)
    epc,              \* epc[e]: where the e-th session:end handler is
    eawait,           \* eawait[e]: the task that handler awaits
    ebegin,           \* history: nsessions when the e-th session:end began
    epushed,          \* history: the StatusLine that got the summary of the e-th
                      \* session:end, while that handler is in its final pause
    \* ---- hook.py: SessionState and its lock, under thread interleaving
    state,            \* hook._state: the SessionState
    lock,             \* the threads inside `with self._lock`
    pc,               \* pc[th]: where thread th is
    cev,              \* cev[c]: the event caller c is delivering
    cwrites,          \* cwrites[c]: the assignments its handler has yet to make
    capplied,         \* capplied[c]: how many assignments its handler has made
    nevents,          \* number of events delivered so far
    \* ---- hook.py: on_event, event by event
    hev,              \* history: the event the last on_event call handled
    hprev,            \* history: the SessionState before that call
    hstuck,           \* history: the last evaluation of the stuck predicate
    \* ---- terminal.py: one StatusLine (sink[1]) used directly
    hsink,            \* history: the last two operations on the StatusLine
    \* ---- spinner.py
    spinner,          \* a Spinner or StatusSpinner: its fields
    hspin,            \* history: the last call on it
    \* ---- amplifier_module_hooks_sessionindicator/__init__.py: the hook that
    \* ---- refreshes from a thread
    m_enabled,        \* hook._enabled = supports_status_line()
    m_running,        \* hook._running
    m_status_line,    \* hook.status_line: None or a StatusLine
    m_sink,           \* the fields of that StatusLine
    m_thread,         \* m_thread[k]: where the k-th refresh thread is
    m_starts,         \* number of refresh threads started so far
    m_call            \* history: the last on_session_start, on_session_end or
                      \* cleanup call, and how it left the hook

unstickVars == <<now, on_exit, on_cancel, on_abort, interrupt_count, last_interrupt,
                 original_handler, installed, sigint, dispatched, wpc, whandler,
                 task_done, wreturn, pre_install, fresh_install>>

refreshVars == <<enabled, position, running, update_task, status_line, nsessions,
                 tstate, tcancel, sink, stream, epc, eawait, ebegin, epushed>>

lockVars == <<state, lock, pc, cev, cwrites, capplied, nevents>>

hookVars == <<hev, hprev, hstuck>>

sinkVars == <<hsink>>

spinnerVars == <<spinner, hspin>>

moduleVars == <<m_enabled, m_running, m_status_line, m_sink, m_thread, m_starts,
                m_call>>

vars == <<unstickVars, refreshVars, lockVars, hookVars, sinkVars, spinnerVars,
          moduleVars>>

\* ================================================================ unstick.py

\* signal.getsignal(SIGINT): None when the handler in place was not installed
\* from Python.
getsignal(h) == IF h = "NonPython" THEN None ELSE h

\* UnstickHandler.install on the signal state s = [sig, orig, inst]
\* (process handler, h._original_handler, h._installed of every handler).
install_no_guard(s, h) ==
    [sig |-> h,
     orig |-> [s.orig EXCEPT ![h] = getsignal(s.sig)],
     inst |-> [s.inst EXCEPT ![h] = TRUE]]

install(s, h) ==
    IF s.inst[h]
    THEN s
    ELSE [sig |-> h,
          orig |-> [s.orig EXCEPT ![h] = getsignal(s.sig)],
          inst |-> [s.inst EXCEPT ![h] = TRUE]]

\* UnstickHandler.uninstall
uninstall(s, h) ==
    IF ~s.inst[h]
    THEN s
    ELSE [sig |-> IF s.orig[h] # None THEN s.orig[h] ELSE s.sig,
          orig |-> s.orig,
          inst |-> [s.inst EXCEPT ![h] = FALSE]]

SigState == [sig |-> sigint, orig |-> original_handler, inst |-> installed]

\* UnstickHandler._handle_sigint, lines 93-105: the count after a signal at time t.
EscalatedCount_inclusive(h, t) ==
    IF last_interrupt[h] # NoTime
    THEN IF t - last_interrupt[h] <= EscalationWindow
         THEN interrupt_count[h] + 1
         ELSE 1
    ELSE 1

EscalatedCount(h, t) ==
    IF last_interrupt[h] # NoTime
    THEN IF t - last_interrupt[h] < EscalationWindow
         THEN interrupt_count[h] + 1
         ELSE 1
    ELSE 1

\* UnstickHandler._handle_sigint, lines 107-121: the hint shown, the callbacks
\* invoked and whether KeyboardInterrupt is raised, for the resulting count c.
Dispatch_fallthrough(h, c) ==
    [handler |-> h,
     hint    |-> IF c = 1 THEN "cancel" ELSE IF c = 2 THEN "abort" ELSE "exit",
     invoked |-> (IF c <= 2 /\ on_cancel THEN {"cancel"} ELSE {})
                 \cup (IF c = 2 /\ on_abort THEN {"abort"} ELSE {})
                 \cup (IF c >= 3 /\ on_exit THEN {"exit"} ELSE {}),
     raised  |-> c >= 3 /\ ~on_exit]

Dispatch_always_raises(h, c) ==
    [handler |-> h,
     hint    |-> IF c = 1 THEN "cancel" ELSE IF c = 2 THEN "abort" ELSE "exit",
     invoked |-> IF c = 1 THEN (IF on_cancel THEN {"cancel"} ELSE {})
                 ELSE IF c = 2 THEN (IF on_abort THEN {"abort"} ELSE {})
                 ELSE (IF on_exit THEN {"exit"} ELSE {}),
     raised  |-> c >= 3]

Dispatch(h, c) ==
    [handler |-> h,
     hint    |-> IF c = 1 THEN "cancel" ELSE IF c = 2 THEN "abort" ELSE "exit",
     invoked |-> IF c = 1 THEN (IF on_cancel THEN {"cancel"} ELSE {})
                 ELSE IF c = 2 THEN (IF on_abort THEN {"abort"} ELSE {})
                 ELSE (IF on_exit THEN {"exit"} ELSE {}),
     raised  |-> c >= 3 /\ ~on_exit]

NoDispatch == [handler |-> None, hint |-> None, invoked |-> {}, raised |-> FALSE]


\* UnstickHandler.__init__ (lines 55-70) for every handler, with any choice of the
\* supplied callbacks, and a process that has some SIGINT handler in place.
InitUnstickVars ==
    /\ now = 0
    /\ on_cancel \in BOOLEAN
    /\ on_abort \in BOOLEAN
    /\ on_exit \in BOOLEAN
    /\ interrupt_count = [h \in Handlers |-> 0]
    /\ last_interrupt = [h \in Handlers |-> NoTime]
    /\ original_handler = [h \in Handlers |-> None]
    /\ installed = [h \in Handlers |-> FALSE]
    /\ sigint \in PriorHandlers
    /\ dispatched = NoDispatch
    /\ wpc = [w \in Waiters |-> "idle"]
    /\ whandler = [w \in Waiters |-> None]
    /\ task_done = [w \in Waiters |-> FALSE]
    /\ wreturn = [waiter |-> None, result |-> None, done |-> FALSE, exc |-> None]
    /\ pre_install = [h \in Handlers |-> None]
    /\ fresh_install = [h \in Handlers |-> FALSE]

\* The same with one fixed configuration, for the specifications of other parts.
ParkedUnstickVars ==
    /\ InitUnstickVars
    /\ on_cancel /\ on_abort /\ on_exit
    /\ sigint = "default_int_handler"

\* The wall clock advances.
Tick ==
    /\ now < MaxTime
    /\ now' = now + 1
    /\ UNCHANGED <<on_exit, on_cancel, on_abort, interrupt_count, last_interrupt,
                   original_handler, installed, sigint, dispatched, wpc, whandler,
                   task_done, wreturn, pre_install, fresh_install>>
    /\ UNCHANGED <<refreshVars, lockVars, hookVars, sinkVars, spinnerVars, moduleVars>>

\* The OS delivers SIGINT; the process handler in place is h._handle_sigint
\* (lines 91-121).
HandleSigint(h) ==
    /\ sigint = h
    /\ EscalatedCount(h, now) <= MaxCount
    /\ interrupt_count' = [interrupt_count EXCEPT ![h] = EscalatedCount(h, now)]
    /\ last_interrupt' = [last_interrupt EXCEPT ![h] = now]
    /\ dispatched' = Dispatch(h, EscalatedCount(h, now))
    /\ UNCHANGED <<now, on_exit, on_cancel, on_abort, original_handler, installed,
                   sigint, wpc, whandler, task_done, wreturn, pre_install>>
    /\ fresh_install' = [fresh_install EXCEPT ![h] = FALSE]
    /\ UNCHANGED <<refreshVars, lockVars, hookVars, sinkVars, spinnerVars, moduleVars>>

\* wait_for_unstick_or_complete, line 151: the loop goes on while not task.done().
keep_waiting_never(done) == FALSE

keep_waiting(done) == ~done

\* wait_for_unstick_or_complete, 153-155: True after the loop, False when
\* CancelledError is caught; any other exception leaves the call.
return_value(exc) ==
    IF exc = None THEN "true"
    ELSE IF exc = "CancelledError" THEN "false"
    ELSE "raised"

SetSigState(s) ==
    /\ sigint' = s.sig
    /\ original_handler' = s.orig
    /\ installed' = s.inst

\* wait_for_unstick_or_complete is called with handler h and a task that is done
\* (d) or not: install (149), first test of the loop (151); with the task done it
\* returns True through the finally (153, 157) without suspending.
WaitStart(w, h, d) ==
    /\ wpc[w] = "idle"
    /\ pre_install' = IF installed[h] THEN pre_install
                      ELSE [pre_install EXCEPT ![h] = sigint]
    /\ fresh_install' = IF installed[h] THEN fresh_install
                        ELSE [fresh_install EXCEPT ![h] = TRUE]
    /\ IF keep_waiting(d)
       THEN /\ SetSigState(install(SigState, h))
            /\ wpc' = [wpc EXCEPT ![w] = "sleeping"]
            /\ whandler' = [whandler EXCEPT ![w] = h]
            /\ task_done' = [task_done EXCEPT ![w] = d]
            /\ UNCHANGED wreturn
       ELSE /\ SetSigState(uninstall(install(SigState, h), h))
            /\ wreturn' = [waiter |-> w, result |-> return_value(None), done |-> d,
                            exc |-> None]
            /\ UNCHANGED <<wpc, whandler, task_done>>
    /\ UNCHANGED <<now, on_exit, on_cancel, on_abort, interrupt_count,
                   last_interrupt, dispatched>>
    /\ UNCHANGED <<refreshVars, lockVars, hookVars, sinkVars, spinnerVars, moduleVars>>

\* The awaited task completes while the waiter sleeps.
TaskComplete(w) ==
    /\ wpc[w] = "sleeping"
    /\ ~task_done[w]
    /\ task_done' = [task_done EXCEPT ![w] = TRUE]
    /\ UNCHANGED <<now, on_exit, on_cancel, on_abort, interrupt_count, last_interrupt,
                   original_handler, installed, sigint, dispatched, wpc, whandler,
                   wreturn, pre_install, fresh_install>>
    /\ UNCHANGED <<refreshVars, lockVars, hookVars, sinkVars, spinnerVars, moduleVars>>

\* The call of w ends, after its loop (exc = None) or with exception exc: the
\* finally clause (156-157) uninstalls the handler, and the call's locals are
\* gone.
Finish(w, exc) ==
    /\ SetSigState(uninstall(SigState, whandler[w]))
    /\ wpc' = [wpc EXCEPT ![w] = "idle"]
    /\ whandler' = [whandler EXCEPT ![w] = None]
    /\ task_done' = [task_done EXCEPT ![w] = FALSE]
    /\ wreturn' = [waiter |-> w, result |-> return_value(exc),
                    done |-> task_done[w], exc |-> exc]
    /\ UNCHANGED <<now, on_exit, on_cancel, on_abort, interrupt_count,
                   last_interrupt, dispatched, pre_install, fresh_install>>
    /\ UNCHANGED <<refreshVars, lockVars, hookVars, sinkVars, spinnerVars, moduleVars>>

\* asyncio.sleep(check_interval) returns (152) and the loop tests task.done()
\* again (151): return True (153), or sleep again.
WaitWake(w) ==
    /\ wpc[w] = "sleeping"
    /\ IF keep_waiting(task_done[w])
       THEN UNCHANGED vars
       ELSE Finish(w, None)

\* The waiter is cancelled: CancelledError is raised at the sleep and caught
\* (154-155), the call returns False.
WaitCancelled(w) ==
    /\ wpc[w] = "sleeping"
    /\ Finish(w, "CancelledError")

\* Any other exception unwinds the call (the KeyboardInterrupt of the third
\* interrupt, raised in the main thread): only the finally clause runs.
WaitUnwound(w) ==
    /\ wpc[w] = "sleeping"
    /\ Finish(w, "KeyboardInterrupt")

\* ============================================================== terminal.py

\* StatusLine.__init__ (93-97): a new sink is hidden and has shown nothing.
NewStatusLine == [visible |-> FALSE, last |-> <<>>]

\* The outcome of a sink operation on sink k before any write: the sink's fields,
\* whether an exception left the operation, how many writes reached the stream.
Outcome(k) == [visible |-> k.visible, last |-> k.last, raised |-> FALSE, wrote |-> 0]

\* StatusLine._write (158-165) on stream st: the text is written; or the write
\* raises OSError, which is caught and marks the sink not visible; or the stream
\* is closed and the write raises ValueError, which is not caught.
write(r, st) ==
    IF r.raised THEN r
    ELSE IF st = "ok" THEN [r EXCEPT !.wrote = @ + 1]
    ELSE IF st = "broken" THEN [r EXCEPT !.visible = FALSE]
    ELSE [r EXCEPT !.raised = TRUE]

\* StatusLine.show (99-108)
show(k, pos, st) ==
    IF k.visible THEN Outcome(k)
    ELSE IF pos = "bottom"
         THEN write([Outcome(k) EXCEPT !.visible = TRUE], st)
         ELSE [Outcome(k) EXCEPT !.visible = TRUE]

\* StatusLine.hide (110-122)
hide(k, pos, st) ==
    IF ~k.visible THEN Outcome(k)
    ELSE IF pos = "bottom"
         THEN write(write([Outcome(k) EXCEPT !.visible = FALSE], st), st)
         ELSE write([Outcome(k) EXCEPT !.visible = FALSE], st)

\* StatusLine.update, lines 130-132: content beyond the width less 2 is cut to
\* end with an ellipsis.
Truncate(c) ==
    IF Len(c) > Width - 2
    THEN SubSeq(c, 1, Width - 2 - 3) \o <<".", ".", ".">>
    ELSE c

\* StatusLine.update (124-156)
update_without_skip(k, c, st) ==
    IF ~k.visible THEN Outcome(k)
    ELSE write([Outcome(k) EXCEPT !.last = Truncate(c)], st)

update(k, c, st) ==
    IF ~k.visible THEN Outcome(k)
    ELSE IF Truncate(c) = k.last THEN Outcome(k)
    ELSE write([Outcome(k) EXCEPT !.last = Truncate(c)], st)

SinkOf(r) == [visible |-> r.visible, last |-> r.last]

\* ================================================= hook.py: display lifecycle
\* The handlers of session:start and session:end and the refresh task run on one
\* asyncio event loop: each step below runs from one suspension point (await) to
\* the next. The handlers of the other events and the SessionState fields touch
\* none of the variables of this part.

\* hook.py:107  self._update_task = None ; hook.py:118  self._status_line = None
NoTask == 0
NoLine == 0

Tasks == 1..MaxSessions
Ends == 1..MaxEnds

\* What _format_status_line (301-325) may return, and the final summary (358-363).
RenderLines == {<<"a">>, <<"b">>, <<"a", "b", "c", "d", "e">>}
Summary == <<"S">>

\* SessionIndicatorHook.__init__ (103-122), for either position and either answer
\* of supports_status_line().
InitRefreshVars ==
    /\ enabled \in BOOLEAN
    /\ position \in {"bottom", "inline"}
    /\ running = FALSE
    /\ update_task = NoTask
    /\ status_line = NoLine
    /\ nsessions = 0
    /\ tstate = [t \in Tasks |-> "none"]
    /\ tcancel = [t \in Tasks |-> FALSE]
    /\ sink = [k \in Tasks |-> NewStatusLine]
    /\ stream = "ok"
    /\ epc = [e \in Ends |-> "none"]
    /\ eawait = [e \in Ends |-> NoTask]
    /\ ebegin = [e \in Ends |-> 0]
    /\ epushed = [e \in Ends |-> NoLine]

\* The same with one fixed configuration, for the specifications of other parts.
ParkedRefreshVars ==
    /\ InitRefreshVars
    /\ enabled
    /\ position = "bottom"

\* A refresh task that caught an exception of its render is back at the loop test
\* (286) without having awaited: it holds the event loop until it awaits.
LoopFree == \A t \in Tasks : tstate[t] # "retry"

Alive(t) == tstate[t] \in {"ready", "sleeping", "retry"}

\* _handle_session_start (150-165): the k-th session:start. When show() raises,
\* the exception leaves on_event before the task is created.
HandleSessionStart ==
    /\ enabled
    /\ LoopFree
    /\ nsessions < MaxSessions
    /\ LET k == nsessions + 1
           r == show(NewStatusLine, position, stream)
       IN /\ nsessions' = k
          /\ running' = TRUE
          /\ status_line' = k
          /\ sink' = [sink EXCEPT ![k] = SinkOf(r)]
          /\ IF r.raised
             THEN UNCHANGED <<update_task, tstate>>
             ELSE /\ update_task' = k
                  /\ tstate' = [tstate EXCEPT ![k] = "ready"]
    /\ UNCHANGED <<enabled, position, tcancel, stream, epc, eawait, ebegin,
                   epushed>>
    /\ UNCHANGED <<unstickVars, lockVars, hookVars, sinkVars, spinnerVars, moduleVars>>

\* _handle_session_end, 178-183: the summary is pushed to the StatusLine the hook
\* holds now, and the handler sleeps 0.5 s; a ValueError of the write leaves it.
PushSummary(e) ==
    IF status_line = NoLine
    THEN /\ epc' = [epc EXCEPT ![e] = "done"]
         /\ UNCHANGED <<sink, epushed>>
    ELSE LET r == update(sink[status_line], Summary, stream)
         IN /\ sink' = [sink EXCEPT ![status_line] = SinkOf(r)]
            /\ epc' = [epc EXCEPT ![e] = IF r.raised THEN "raised" ELSE "pausing"]
            /\ epushed' = [epushed EXCEPT ![e] = IF r.raised THEN NoLine
                                                 ELSE status_line]

\* _handle_session_end, 169-176: the e-th session:end. The task the hook holds is
\* cancelled and awaited; a task that is done is awaited without suspending.
HandleSessionEnd(e) ==
    /\ enabled
    /\ LoopFree
    /\ epc[e] = "none"
    /\ \A e2 \in Ends : e2 < e => epc[e2] # "none"
    /\ running' = FALSE
    /\ ebegin' = [ebegin EXCEPT ![e] = nsessions]
    /\ IF update_task # NoTask /\ tstate[update_task] # "done"
       THEN /\ tcancel' = [tcancel EXCEPT ![update_task] = TRUE]
            /\ eawait' = [eawait EXCEPT ![e] = update_task]
            /\ epc' = [epc EXCEPT ![e] = "awaiting"]
            /\ UNCHANGED <<sink, epushed>>
       ELSE /\ PushSummary(e)
            /\ UNCHANGED <<tcancel, eawait>>
    /\ UNCHANGED <<enabled, position, update_task, status_line, nsessions, tstate,
                   stream>>
    /\ UNCHANGED <<unstickVars, lockVars, hookVars, sinkVars, spinnerVars, moduleVars>>

\* _handle_session_end resumes from `await self._update_task` (174).
SessionEndResume(e) ==
    /\ LoopFree
    /\ epc[e] = "awaiting"
    /\ tstate[eawait[e]] = "done"
    /\ PushSummary(e)
    /\ UNCHANGED <<enabled, position, running, update_task, status_line, nsessions,
                   tstate, tcancel, stream, eawait, ebegin>>
    /\ UNCHANGED <<unstickVars, lockVars, hookVars, sinkVars, spinnerVars, moduleVars>>

\* _handle_session_end resumes from the sleep (183) and hides the StatusLine the
\* hook holds now (184).
SessionEndHide(e) ==
    /\ LoopFree
    /\ epc[e] = "pausing"
    /\ LET r == hide(sink[status_line], position, stream)
       IN /\ sink' = [sink EXCEPT ![status_line] = SinkOf(r)]
          /\ epc' = [epc EXCEPT ![e] = IF r.raised THEN "raised" ELSE "done"]
    /\ epushed' = [epushed EXCEPT ![e] = NoLine]
    /\ UNCHANGED <<enabled, position, running, update_task, status_line, nsessions,
                   tstate, tcancel, stream, eawait, ebegin>>
    /\ UNCHANGED <<unstickVars, lockVars, hookVars, sinkVars, spinnerVars, moduleVars>>

\* The event loop runs refresh task t: at its start, after its sleep, or on at the
\* loop test after a caught exception.
Runnable(t) ==
    \/ tstate[t] \in {"ready", "sleeping"} /\ LoopFree
    \/ tstate[t] = "retry"

\* _update_loop: the cancellation is delivered. A task that never ran is cancelled
\* before its first step; at the sleep CancelledError is caught (295-296).
TaskCancelled(t) ==
    /\ Runnable(t)
    /\ tcancel[t]
    /\ tstate' = [tstate EXCEPT ![t] = "done"]
    /\ tcancel' = [tcancel EXCEPT ![t] = FALSE]
    /\ UNCHANGED <<enabled, position, running, update_task, status_line, nsessions,
                   sink, stream, epc, eawait, ebegin, epushed>>
    /\ UNCHANGED <<unstickVars, lockVars, hookVars, sinkVars, spinnerVars, moduleVars>>

\* _update_loop, 286: the loop ends when _running is false.
TaskExits(t) ==
    /\ Runnable(t)
    /\ ~tcancel[t]
    /\ ~running
    /\ tstate' = [tstate EXCEPT ![t] = "done"]
    /\ UNCHANGED <<enabled, position, running, update_task, status_line, nsessions,
                   tcancel, sink, stream, epc, eawait, ebegin, epushed>>
    /\ UNCHANGED <<unstickVars, lockVars, hookVars, sinkVars, spinnerVars, moduleVars>>

\* _update_loop, 287-299: where the task is after its render: at the sleep (294),
\* or, after an exception that `except Exception: pass` swallowed, at the loop
\* test again.
after_render(raised) == IF raised THEN "retry" ELSE "sleeping"

\* _update_loop, 286-299: one iteration that renders line c and pushes it to the
\* StatusLine the hook holds now.
TaskRenders(t, c) ==
    /\ Runnable(t)
    /\ ~tcancel[t]
    /\ running
    /\ IF status_line = NoLine
       THEN /\ tstate' = [tstate EXCEPT ![t] = after_render(FALSE)]
            /\ UNCHANGED sink
       ELSE LET r == update(sink[status_line], c, stream)
            IN /\ sink' = [sink EXCEPT ![status_line] = SinkOf(r)]
               /\ tstate' = [tstate EXCEPT ![t] = after_render(r.raised)]
    /\ UNCHANGED <<enabled, position, running, update_task, status_line, nsessions,
                   tcancel, stream, epc, eawait, ebegin, epushed>>
    /\ UNCHANGED <<unstickVars, lockVars, hookVars, sinkVars, spinnerVars, moduleVars>>

\* The terminal goes away: from now on writes to sys.stderr raise OSError (a
\* broken pipe) or ValueError (a closed file).
StreamFails ==
    /\ stream = "ok"
    /\ stream' \in {"broken", "closed"}
    /\ UNCHANGED <<enabled, position, running, update_task, status_line, nsessions,
                   tstate, tcancel, sink, epc, eawait, ebegin, epushed>>
    /\ UNCHANGED <<unstickVars, lockVars, hookVars, sinkVars, spinnerVars, moduleVars>>

\* ================================================== hook.py: the SessionState

\* dict.get / `in payload`: the marker of a key the payload does not carry
\* (hook.py:200 "token_count" in payload, for the token values).
Absent == "<absent>"
AbsentTokens == -1
AbsentError == <<"<absent>">>

\* current_tool = None
NoTool == <<>>

\* The values the payloads of the model carry.
SessionIds == {"S1"}
TokenAmounts == {1}
ToolNames == {"bash"}
SubIds == {"s1", ""}
Agents == {"explorer"}
\* error messages, as sequences of characters: a short one and one of 51 characters
ErrorMessages == {<<"b", "o", "o", "m">>, [i \in 1..51 |-> "x"]}

\* SessionState (18-33) with the defaults of its fields.
SessionState(session_id, started_at, status, last_activity) ==
    [session_id |-> session_id,
     started_at |-> started_at,
     status |-> status,
     current_tool |-> NoTool,
     input_tokens |-> 0,
     output_tokens |-> 0,
     turn_count |-> 0,
     is_streaming |-> FALSE,
     last_activity |-> last_activity,
     active_subsessions |-> [k \in {} |-> Absent]]

\* A payload: every key an event handler reads, Absent where it is missing.
Payload ==
    [session_id |-> Absent, error |-> AbsentError, token_count |-> AbsentTokens,
     has_usage |-> FALSE, usage_input |-> AbsentTokens, usage_output |-> AbsentTokens,
     tool_name |-> Absent, name |-> Absent, agent |-> Absent]

\* SUBSCRIBED_EVENTS (74-89) and an event name the hook does not know.
SUBSCRIBED_EVENTS ==
    {"session:start", "session:end", "session:error", "llm:request", "llm:response",
     "llm:stream_start", "llm:stream_chunk", "llm:stream_end", "tool:pre",
     "tool:post", "turn:start", "turn:end", "task:agent_spawned",
     "task:agent_complete"}

\* The event names the model delivers: the subscribed ones, a name no handler
\* matches, and a name that is not subscribed but spells a handler's name.
EventNames == SUBSCRIBED_EVENTS \cup {"other:event", "tool_pre"}

\* event_type.replace(':', '_') (138), on the names of the model.
replace_colon(type) ==
    CASE type = "session:start" -> "session_start"
      [] type = "session:end" -> "session_end"
      [] type = "session:error" -> "session_error"
      [] type = "llm:request" -> "llm_request"
      [] type = "llm:response" -> "llm_response"
      [] type = "llm:stream_start" -> "llm_stream_start"
      [] type = "llm:stream_chunk" -> "llm_stream_chunk"
      [] type = "llm:stream_end" -> "llm_stream_end"
      [] type = "tool:pre" -> "tool_pre"
      [] type = "tool:post" -> "tool_post"
      [] type = "turn:start" -> "turn_start"
      [] type = "turn:end" -> "turn_end"
      [] type = "task:agent_spawned" -> "task_agent_spawned"
      [] type = "task:agent_complete" -> "task_agent_complete"
      [] type = "other:event" -> "other_event"
      [] type = "tool_pre" -> "tool_pre"
      [] OTHER -> type

\* The payloads the model delivers with each event.
PayloadsOf(type) ==
    IF type = "session:start"
    THEN {[Payload EXCEPT !.session_id = s] : s \in SessionIds}
    ELSE IF type = "session:error"
    THEN {[Payload EXCEPT !.error = m] : m \in ErrorMessages \cup {AbsentError}}
    ELSE IF type = "llm:request"
    THEN {[Payload EXCEPT !.token_count = n] : n \in TokenAmounts \cup {AbsentTokens}}
    ELSE IF type = "llm:response"
    THEN {[Payload EXCEPT !.token_count = n] : n \in TokenAmounts \cup {AbsentTokens}}
         \cup {[Payload EXCEPT !.has_usage = TRUE, !.usage_input = i,
                               !.usage_output = o] :
                  i \in {AbsentTokens, 0, 1}, o \in {AbsentTokens, 1}}
         \cup {[Payload EXCEPT !.token_count = 1, !.has_usage = TRUE,
                               !.usage_input = 0, !.usage_output = 1]}
    ELSE IF type = "tool:pre"
    THEN {[Payload EXCEPT !.tool_name = a, !.name = b] :
             a \in ToolNames \cup {Absent}, b \in {"edit", Absent}}
    ELSE IF type = "task:agent_spawned"
    THEN {[Payload EXCEPT !.session_id = sa[1], !.agent = sa[2]] :
             sa \in SubIds \X Agents}
    ELSE IF type = "task:agent_complete"
    THEN {[Payload EXCEPT !.session_id = s] : s \in SubIds \cup {"unknown", Absent}}
    ELSE {Payload}

\* `if sub_id` on payload.get("session_id"), 272-273: None and the empty string
\* are false.
truthy(value) == value \notin {Absent, ""}

\* payload.get(key, default)
Get(value, default) == IF value = Absent THEN default ELSE value

\* dict assignment and deletion on active_subsessions
DictSet(d, k, v) == [x \in DOMAIN d \cup {k} |-> IF x = k THEN v ELSE d[x]]
DictDel(d, k) == [x \in DOMAIN d \ {k} |-> d[x]]

\* text[:n]
Take(text, n) == SubSeq(text, 1, IF Len(text) < n THEN Len(text) ELSE n)

W(field, value) == [f |-> field, v |-> value]

\* The assignments to SessionState each handler makes, in the order of the
\* source, for payload p, on state st at time t. "*" stands for self._state.

\* _handle_session_start, 152-158
handle_session_start_merges(p, st, t) ==
    <<W("session_id", Get(p.session_id, None)), W("started_at", t),
      W("status", "starting"), W("last_activity", t)>>

handle_session_start(p, st, t) ==
    <<W("*", SessionState(Get(p.session_id, None), t, "starting", t))>>

\* _handle_session_error, 188-191
handle_session_error(p, st, t) ==
    <<W("status", "error"),
      W("current_tool",
        <<"Error: ">> \o Take(IF p.error = AbsentError
                              THEN <<"Unknown error">> ELSE p.error, 50))>>

\* _handle_llm_request, 195-201
handle_llm_request(p, st, t) ==
    <<W("status", "thinking"), W("current_tool", NoTool), W("is_streaming", FALSE)>>
    \o (IF p.token_count # AbsentTokens
        THEN <<W("input_tokens", st.input_tokens + p.token_count)>>
        ELSE <<>>)

\* _handle_llm_response, 205-216
handle_llm_response_output_absolute(p, st, t) ==
    <<W("status", "processing"), W("is_streaming", FALSE)>>
    \o (IF p.token_count # AbsentTokens
        THEN <<W("output_tokens", st.output_tokens + p.token_count)>>
        ELSE IF p.has_usage
        THEN (IF p.usage_input # AbsentTokens
              THEN <<W("input_tokens", p.usage_input)>> ELSE <<>>)
             \o (IF p.usage_output # AbsentTokens
                 THEN <<W("output_tokens", p.usage_output)>>
                 ELSE <<>>)
        ELSE <<>>)

handle_llm_response_both(p, st, t) ==
    <<W("status", "processing"), W("is_streaming", FALSE)>>
    \o (IF p.token_count # AbsentTokens
        THEN <<W("output_tokens", st.output_tokens + p.token_count)>>
        ELSE <<>>)
    \o (IF p.has_usage /\ p.usage_input # AbsentTokens
        THEN <<W("input_tokens", p.usage_input)>> ELSE <<>>)

handle_llm_response(p, st, t) ==
    <<W("status", "processing"), W("is_streaming", FALSE)>>
    \o (IF p.token_count # AbsentTokens
        THEN <<W("output_tokens", st.output_tokens + p.token_count)>>
        ELSE IF p.has_usage
        THEN (IF p.usage_input # AbsentTokens
              THEN <<W("input_tokens", p.usage_input)>> ELSE <<>>)
             \o (IF p.usage_output # AbsentTokens
                 THEN <<W("output_tokens", st.output_tokens + p.usage_output)>>
                 ELSE <<>>)
        ELSE <<>>)

\* _handle_llm_stream_start, 220-222
handle_llm_stream_start(p, st, t) ==
    <<W("status", "streaming"), W("is_streaming", TRUE)>>

\* _handle_llm_stream_end, 231-233
handle_llm_stream_end(p, st, t) ==
    <<W("is_streaming", FALSE), W("status", "processing")>>

\* _handle_tool_pre, 237-240
handle_tool_pre(p, st, t) ==
    <<W("status", "executing"),
      W("current_tool", <<Get(p.tool_name, Get(p.name, "tool"))>>)>>

\* _handle_tool_post, 244-246
handle_tool_post_keeps_tool(p, st, t) ==
    <<W("status", "thinking")>>

handle_tool_post(p, st, t) ==
    <<W("status", "thinking"), W("current_tool", NoTool)>>

\* _handle_turn_start, 250-252
handle_turn_start_not_counted(p, st, t) ==
    <<W("status", "thinking")>>

handle_turn_start_restamps(p, st, t) ==
    <<W("turn_count", st.turn_count + 1), W("status", "thinking"),
      W("started_at", t)>>

handle_turn_start(p, st, t) ==
    <<W("turn_count", st.turn_count + 1), W("status", "thinking")>>

\* _handle_turn_end, 256-258
handle_turn_end_done(p, st, t) ==
    <<W("status", "done"), W("current_tool", NoTool)>>

handle_turn_end(p, st, t) ==
    <<W("status", "idle"), W("current_tool", NoTool)>>

\* _handle_task_agent_spawned, 262-267
handle_task_agent_spawned(p, st, t) ==
    <<W("active_subsessions",
        DictSet(st.active_subsessions, Get(p.session_id, "unknown"),
                Get(p.agent, "agent"))),
      W("status", "delegating"),
      W("current_tool", <<"-> ", Get(p.agent, "agent")>>)>>

\* _handle_task_agent_complete, 271-278
handle_task_agent_complete_keeps_status(p, st, t) ==
    IF truthy(p.session_id) /\ p.session_id \in DOMAIN st.active_subsessions
    THEN <<W("active_subsessions", DictDel(st.active_subsessions, p.session_id))>>
    ELSE <<>>

handle_task_agent_complete(p, st, t) ==
    LET present == truthy(p.session_id)
                   /\ p.session_id \in DOMAIN st.active_subsessions
        subs == IF present THEN DictDel(st.active_subsessions, p.session_id)
                ELSE st.active_subsessions
    IN (IF present THEN <<W("active_subsessions", subs)>> ELSE <<>>)
       \o (IF DOMAIN subs = {}
           THEN <<W("status", "thinking"), W("current_tool", NoTool)>>
           ELSE <<>>)

\* SessionState.format_tokens (48-56), for counts below 1000: each count in
\* decimal followed by its arrow.
format_tokens(st) == <<st.input_tokens, "^", st.output_tokens, "v">>

\* SessionState.elapsed_seconds (35-39), in whole seconds at time t.
elapsed_seconds(st, t) == IF st.started_at = NoTime THEN 0 ELSE t - st.started_at

\* _format_final_summary (358-363): the parts of the summary line, in order.
format_final_summary(st, t) ==
    <<"Session complete", format_tokens(st), elapsed_seconds(st, t),
      st.turn_count, "turns">>

\* on_event, 138-140: the handler is looked up by the name _handle_<event name
\* with ':' replaced by '_'>; a name without a handler, llm:stream_chunk (224-227)
\* and session:end (167-184) assign nothing.
HandlerWrites(type, p, st, t) ==
    LET handler == replace_colon(type)
    IN IF handler = "session_start" THEN handle_session_start(p, st, t)
       ELSE IF handler = "session_error" THEN handle_session_error(p, st, t)
       ELSE IF handler = "llm_request" THEN handle_llm_request(p, st, t)
       ELSE IF handler = "llm_response" THEN handle_llm_response(p, st, t)
       ELSE IF handler = "llm_stream_start" THEN handle_llm_stream_start(p, st, t)
       ELSE IF handler = "llm_stream_end" THEN handle_llm_stream_end(p, st, t)
       ELSE IF handler = "tool_pre" THEN handle_tool_pre(p, st, t)
       ELSE IF handler = "tool_post" THEN handle_tool_post(p, st, t)
       ELSE IF handler = "turn_start" THEN handle_turn_start(p, st, t)
       ELSE IF handler = "turn_end" THEN handle_turn_end(p, st, t)
       ELSE IF handler = "task_agent_spawned"
       THEN handle_task_agent_spawned(p, st, t)
       ELSE IF handler = "task_agent_complete"
       THEN handle_task_agent_complete(p, st, t)
       ELSE <<>>

\* One assignment applied.
Assign(st, w) == IF w.f = "*" THEN w.v ELSE [st EXCEPT ![w.f] = w.v]

\* The handlers that make their assignments inside `with self._lock` (every
\* handler that assigns does: 152, 188, 195, 205, 220, 231, 237, 244, 250, 256,
\* 262, 271).
LockingHandlers ==
    {"session_start", "session_error", "llm_request", "llm_response",
     "llm_stream_start", "llm_stream_end", "tool_pre", "tool_post", "turn_start",
     "turn_end", "task_agent_spawned", "task_agent_complete"}

\* Whether the handler of the event enters `with self._lock` for its assignments.
takes_lock_but_tool_pre(type) ==
    replace_colon(type) \in LockingHandlers \ {"tool_pre"}

takes_lock(type) == replace_colon(type) \in LockingHandlers

\* ======================================== hook.py: the lock on SessionState
\* Threads that preempt one another at any point: the callers of on_event, and
\* the thread of the refresh loop. A step is one acquisition of the lock, one
\* assignment to SessionState, one read of it for a render, one release, one
\* operation on the StatusLine, or one resumption from an await. The hook holds
\* a StatusLine and a refresh task when session:end arrives.

Callers == {"c1", "c2"}
Refresh == "refresh"
Threads == Callers \cup {Refresh}

NoEvent == [type |-> None, p |-> Payload]

\* SessionIndicatorHook.__init__, 104-105: a default SessionState and a free lock.
InitLockVars ==
    /\ state = SessionState(None, NoTime, "idle", NoTime)
    /\ lock = {}
    /\ pc = [th \in Threads |-> "idle"]
    /\ cev = [c \in Callers |-> NoEvent]
    /\ cwrites = [c \in Callers |-> <<>>]
    /\ capplied = [c \in Callers |-> 0]
    /\ nevents = 0

ParkedLockVars == InitLockVars

\* threading.Lock: `with self._lock` is entered when no thread holds the lock.
acquire(th) ==
    /\ lock = {}
    /\ lock' = lock \cup {th}

\* The end of a `with self._lock` block.
release_never(th) == lock' = lock

release(th) == lock' = lock \ {th}

\* Where a thread performs an operation on the StatusLine: show() in
\* _handle_session_start (162), update() in _update_loop (292) and in
\* _handle_session_end (182), hide() in _handle_session_end (184).
SinkOperations == {"showing", "pushing", "hiding"}

\* Where a coroutine is suspended: `await self._update_task` (174) and the sleeps
\* of _handle_session_end (183) and _update_loop (294).
Suspensions == {"awaiting", "sleeping"}

\* Where a thread is about to enter `with self._lock`.
Entering(th) ==
    \/ pc[th] \in {"want", "want_read", "want_touch"}
    \/ th = Refresh /\ pc[th] = "idle"

\* on_event(type, p) is called on thread c (129-140): the handler of the event is
\* looked up and entered. _handle_session_end reads the summary (180-181); a
\* handler that assigns enters `with self._lock`; llm:stream_chunk and an event
\* without a handler assign nothing.
CallerBegin(c, type, p) ==
    /\ pc[c] = "idle"
    /\ nevents < MaxEvents
    /\ nevents' = nevents + 1
    /\ cev' = [cev EXCEPT ![c] = [type |-> type, p |-> p]]
    /\ IF replace_colon(type) = "session_end"
       THEN /\ pc' = [pc EXCEPT ![c] = "awaiting"]
            /\ UNCHANGED cwrites
       ELSE IF takes_lock(type)
       THEN /\ pc' = [pc EXCEPT ![c] = "want"]
            /\ UNCHANGED cwrites
       ELSE /\ pc' = [pc EXCEPT ![c] = "writing"]
            /\ cwrites' = [cwrites EXCEPT ![c] = HandlerWrites(type, p, state, now)]
    /\ UNCHANGED <<state, lock, capplied>>
    /\ UNCHANGED <<unstickVars, refreshVars, hookVars, sinkVars, spinnerVars, moduleVars>>

\* The handler enters `with self._lock`.
CallerAcquire(c) ==
    /\ pc[c] = "want"
    /\ acquire(c)
    /\ pc' = [pc EXCEPT ![c] = "writing"]
    /\ cwrites' = [cwrites EXCEPT
                     ![c] = HandlerWrites(cev[c].type, cev[c].p, state, now)]
    /\ UNCHANGED <<state, cev, capplied, nevents>>
    /\ UNCHANGED <<unstickVars, refreshVars, hookVars, sinkVars, spinnerVars, moduleVars>>

\* The handler makes its next assignment.
CallerWrite(c) ==
    /\ pc[c] = "writing"
    /\ cwrites[c] # <<>>
    /\ state' = Assign(state, Head(cwrites[c]))
    /\ cwrites' = [cwrites EXCEPT ![c] = Tail(cwrites[c])]
    /\ capplied' = [capplied EXCEPT ![c] = capplied[c] + 1]
    /\ UNCHANGED <<lock, pc, cev, nevents>>
    /\ UNCHANGED <<unstickVars, refreshVars, hookVars, sinkVars, spinnerVars, moduleVars>>

\* The handler leaves its `with` block: _handle_session_start goes on to create
\* and show the StatusLine (161-162), the others return to on_event (140).
CallerRelease(c) ==
    /\ pc[c] = "writing"
    /\ cwrites[c] = <<>>
    /\ release(c)
    /\ pc' = [pc EXCEPT ![c] = IF replace_colon(cev[c].type) = "session_start"
                                THEN "showing" ELSE "want_touch"]
    /\ capplied' = [capplied EXCEPT ![c] = 0]
    /\ UNCHANGED <<state, cev, cwrites, nevents>>
    /\ UNCHANGED <<unstickVars, refreshVars, hookVars, sinkVars, spinnerVars, moduleVars>>

\* A render: _update_loop (288-289) on the refresh thread whenever it runs, or
\* _handle_session_end (180-181) on a caller's thread, enters `with self._lock`
\* and formats the status line or the final summary from the SessionState.
ReadAcquire(th) ==
    /\ pc[th] = IF th = Refresh THEN "idle" ELSE "want_read"
    /\ acquire(th)
    /\ pc' = [pc EXCEPT ![th] = "reading"]
    /\ UNCHANGED <<state, cev, cwrites, capplied, nevents>>
    /\ UNCHANGED <<unstickVars, refreshVars, hookVars, sinkVars, spinnerVars, moduleVars>>

\* The render leaves its `with` block, with the line to push (291-292, 182).
ReadRelease(th) ==
    /\ pc[th] = "reading"
    /\ release(th)
    /\ pc' = [pc EXCEPT ![th] = "pushing"]
    /\ UNCHANGED <<state, cev, cwrites, capplied, nevents>>
    /\ UNCHANGED <<unstickVars, refreshVars, hookVars, sinkVars, spinnerVars, moduleVars>>

\* The operation on the StatusLine is performed: after show() the handler of
\* session:start creates the task and returns (165); after update() the refresh
\* loop and the handler of session:end sleep (294, 183); after hide() the handler
\* of session:end returns (184).
SinkOperation(th) ==
    /\ pc[th] \in SinkOperations
    /\ pc' = [pc EXCEPT ![th] = IF pc[th] = "pushing" THEN "sleeping"
                                 ELSE "want_touch"]
    /\ UNCHANGED <<state, lock, cev, cwrites, capplied, nevents>>
    /\ UNCHANGED <<unstickVars, refreshVars, hookVars, sinkVars, spinnerVars, moduleVars>>

\* A suspended coroutine resumes: the handler of session:end after its await
\* (174) reads the summary, after its sleep (183) hides; the refresh loop after
\* its sleep (294) is at the loop test.
Resume(th) ==
    /\ pc[th] \in Suspensions
    /\ pc' = [pc EXCEPT ![th] = IF pc[th] = "awaiting" THEN "want_read"
                                 ELSE IF th = Refresh THEN "idle"
                                 ELSE "hiding"]
    /\ UNCHANGED <<state, lock, cev, cwrites, capplied, nevents>>
    /\ UNCHANGED <<unstickVars, refreshVars, hookVars, sinkVars, spinnerVars, moduleVars>>

\* on_event, 143: enters `with self._lock` after the handler.
CallerTouchAcquire(c) ==
    /\ pc[c] = "want_touch"
    /\ acquire(c)
    /\ pc' = [pc EXCEPT ![c] = "touching"]
    /\ UNCHANGED <<state, cev, cwrites, capplied, nevents>>
    /\ UNCHANGED <<unstickVars, refreshVars, hookVars, sinkVars, spinnerVars, moduleVars>>

\* on_event, 144: last_activity = now(), and the lock is released.
CallerTouch(c) ==
    /\ pc[c] = "touching"
    /\ state' = [state EXCEPT !.last_activity = now]
    /\ release(c)
    /\ pc' = [pc EXCEPT ![c] = "idle"]
    /\ cev' = [cev EXCEPT ![c] = NoEvent]
    /\ UNCHANGED <<cwrites, capplied, nevents>>
    /\ UNCHANGED <<unstickVars, refreshVars, hookVars, sinkVars, spinnerVars, moduleVars>>

\* The clock stands still here: the lock is taken and released the same way at
\* any time.
NextLock ==
    \/ \E c \in Callers, type \in EventNames :
          \E p \in PayloadsOf(type) : CallerBegin(c, type, p)
    \/ \E c \in Callers : CallerAcquire(c)
    \/ \E c \in Callers : CallerWrite(c)
    \/ \E c \in Callers : CallerRelease(c)
    \/ \E th \in Threads : ReadAcquire(th)
    \/ \E th \in Threads : ReadRelease(th)
    \/ \E th \in Threads : SinkOperation(th)
    \/ \E th \in Threads : Resume(th)
    \/ \E c \in Callers : CallerTouchAcquire(c)
    \/ \E c \in Callers : CallerTouch(c)

\* ============================================ hook.py: on_event, event by event
\* The events of one hook handled one after the other: each step is one whole
\* on_event call (129-144), the handler's assignments and the last_activity
\* assignment. The display lifecycle reads and assigns no SessionState field and
\* stays as constructed here.

\* All the assignments of a handler, made in order.
ApplyWrites(st, ws) ==
    LET after[i \in 0..Len(ws)] ==
            IF i = 0 THEN st ELSE Assign(after[i - 1], ws[i])
    IN after[Len(ws)]

\* on_event(type, p) on state st at time t: the state it leaves (140-144).
on_event_no_touch(type, p, st, t) ==
    ApplyWrites(st, HandlerWrites(type, p, st, t))

on_event(type, p, st, t) ==
    [ApplyWrites(st, HandlerWrites(type, p, st, t)) EXCEPT !.last_activity = t]

\* hook._running after on_event(type): set by _handle_session_start (160) and
\* cleared by _handle_session_end (169).
running_after(type, r) ==
    IF replace_colon(type) = "session_start" THEN TRUE
    ELSE IF replace_colon(type) = "session_end" THEN FALSE
    ELSE r

\* The counters of the model stay within its bounds.
WithinBounds(st) ==
    /\ st.input_tokens + st.output_tokens <= MaxTokens
    /\ st.turn_count <= MaxTurns

NoState == SessionState(None, NoTime, "idle", NoTime)

\* hook.py:114  config.get("stuck_threshold", 60.0)
DefaultStuckThreshold == 60
\* The hook's config: without the key (the empty sequence) or with a threshold.
StuckConfigs == {<<>>, <<0>>, <<1>>}
stuck_threshold(config) == IF config = <<>> THEN DefaultStuckThreshold ELSE config[1]

\* SessionState.seconds_since_activity (58-62) at time t.
seconds_since_activity(st, t) ==
    IF st.last_activity = NoTime THEN 0 ELSE t - st.last_activity

\* _should_show_stuck_warning (352-356)
should_show_stuck_warning_inclusive(st, t, threshold) ==
    IF st.status = "idle" THEN FALSE
    ELSE seconds_since_activity(st, t) >= threshold

should_show_stuck_warning(st, t, threshold) ==
    IF st.status = "idle" THEN FALSE
    ELSE seconds_since_activity(st, t) > threshold

NoStuck == [evaluated |-> FALSE, config |-> <<>>, shown |-> FALSE]

\* No on_event call observed yet.
InitHookVars ==
    /\ hev = NoEvent
    /\ hprev = NoState
    /\ hstuck = NoStuck

\* The clock advances between two on_event calls.
HookTick ==
    /\ hev = NoEvent
    /\ hstuck = NoStuck
    /\ now < MaxHookTime
    /\ Tick

\* One on_event call on an enabled hook. The call may be observed: the event and
\* the state before it are recorded, and the observed call is the last of the run.
OnEvent(type, p, observed) ==
    /\ enabled
    /\ hev = NoEvent
    /\ hstuck = NoStuck
    /\ WithinBounds(on_event(type, p, state, now))
    /\ state' = on_event(type, p, state, now)
    /\ hev' = IF observed THEN [type |-> type, p |-> p] ELSE hev
    /\ hprev' = IF observed THEN state ELSE hprev
    /\ running' = running_after(type, running)
    /\ UNCHANGED <<hstuck, lock, pc, cev, cwrites, capplied, nevents>>
    /\ UNCHANGED <<enabled, position, update_task, status_line, nsessions, tstate,
                   tcancel, sink, stream, epc, eawait, ebegin, epushed>>
    /\ UNCHANGED unstickVars
    /\ UNCHANGED <<sinkVars, spinnerVars, moduleVars>>

\* on_event on a hook that is not enabled (135-136): the call returns before it
\* looks for a handler.
on_event_disabled_touches(type, p, st, t) == [st EXCEPT !.last_activity = t]

on_event_disabled(type, p, st, t) == st

\* One on_event call on a hook that is not enabled; the event and the state
\* before it are recorded.
OnEventDisabled(type, p) ==
    /\ ~enabled
    /\ state' = on_event_disabled(type, p, state, now)
    /\ hev' = [type |-> type, p |-> p]
    /\ hprev' = state
    /\ UNCHANGED <<hstuck, lock, pc, cev, cwrites, capplied, nevents>>
    /\ UNCHANGED <<unstickVars, refreshVars>>
    /\ UNCHANGED <<sinkVars, spinnerVars, moduleVars>>

\* The stuck predicate is evaluated, as _format_status_line does (319), on a
\* hook configured with stuck_threshold c; the evaluation is the last step of
\* the run.
ShouldShowStuckWarning(c) ==
    /\ hev = NoEvent
    /\ hstuck = NoStuck
    /\ hstuck' = [evaluated |-> TRUE, config |-> c,
                  shown |-> should_show_stuck_warning(state, now, stuck_threshold(c))]
    /\ UNCHANGED <<hev, hprev>>
    /\ UNCHANGED <<unstickVars, refreshVars, lockVars>>
    /\ UNCHANGED <<sinkVars, spinnerVars, moduleVars>>

NextHook ==
    \/ HookTick
    \/ \E c \in StuckConfigs : ShouldShowStuckWarning(c)
    \/ \E type \in EventNames, observed \in BOOLEAN :
          \E p \in PayloadsOf(type) : OnEvent(type, p, observed)

\* ===================================== terminal.py: one StatusLine used directly
\* The operations of one StatusLine, sink[1], called one after the other by its
\* owner, on a stream that may start to fail and may work again (a transient
\* OSError), in either position.

SinkContents == RenderLines \cup {<<>>}

NoSinkOp == [op |-> None, c |-> <<>>, before |-> NewStatusLine, stream |-> "ok",
             wrote |-> 0, raised |-> FALSE]

InitSinkVars == hsink = [last |-> NoSinkOp, prev |-> NoSinkOp]

ParkedSinkVars == InitSinkVars

\* One call of show(), hide() or update(c) on the StatusLine: the call and what it
\* did are recorded, together with the call before it.
SinkCall(op, c, r) ==
    /\ sink' = [sink EXCEPT ![1] = SinkOf(r)]
    /\ hsink' = [last |-> [op |-> op, c |-> c, before |-> sink[1], stream |-> stream,
                           wrote |-> r.wrote, raised |-> r.raised],
                 prev |-> hsink.last]
    /\ UNCHANGED <<enabled, position, running, update_task, status_line, nsessions,
                   tstate, tcancel, stream, epc, eawait, ebegin, epushed>>
    /\ UNCHANGED <<unstickVars, lockVars, hookVars, spinnerVars, moduleVars>>

\* No hook holds the StatusLine: its owner calls it.
SinkShow ==
    /\ status_line = NoLine
    /\ SinkCall("show", <<>>, show(sink[1], position, stream))

SinkHide ==
    /\ status_line = NoLine
    /\ SinkCall("hide", <<>>, hide(sink[1], position, stream))

SinkUpdate(c) ==
    /\ status_line = NoLine
    /\ SinkCall("update", c, update(sink[1], c, stream))

\* A stream whose writes raised OSError takes writes again.
StreamRecovers ==
    /\ stream = "broken"
    /\ stream' = "ok"
    /\ UNCHANGED <<enabled, position, running, update_task, status_line, nsessions,
                   tstate, tcancel, sink, epc, eawait, ebegin, epushed>>
    /\ UNCHANGED <<unstickVars, lockVars, hookVars, sinkVars, spinnerVars, moduleVars>>

NextSink ==
    \/ SinkShow
    \/ SinkHide
    \/ \E c \in SinkContents : SinkUpdate(c)
    \/ StreamFails
    \/ StreamRecovers

\* ================================================================ spinner.py

\* SPINNERS (11-20): the frame sets by style; the glyphs are named.
SPINNERS ==
    [dots |-> <<"dots1", "dots2", "dots3", "dots4", "dots5", "dots6", "dots7",
                "dots8", "dots9", "dots10">>,
     line |-> <<"|", "/", "-", "\\">>,
     box |-> <<"box1", "box2", "box3", "box4">>,
     arrow |-> <<"left", "upleft", "up", "upright", "right", "downright", "down",
                 "downleft">>,
     bounce |-> <<"bounce1", "bounce2", "bounce3", "bounce4", "bounce5", "bounce6",
                  "bounce7", "bounce8">>,
     circle |-> <<"circle1", "circle2", "circle3", "circle4">>,
     grow |-> <<"grow1", "grow2", "grow3", "grow4", "grow5", "grow6", "grow7",
                "grow8", "grow9", "grow10">>,
     ellipsis |-> <<"   ", ".  ", ".. ", "...">>]

DEFAULT_SPINNER == "dots"

\* StatusSpinner.STATUS_ICONS (61-66)
STATUS_ICONS ==
    [idle |-> "circle", error |-> "cross", success |-> "check", warning |-> "warn"]

\* StatusSpinner.STREAMING_FRAMES (68): the bars by height, lowest to full and
\* down again.
STREAMING_FRAMES ==
    <<"bar1", "bar2", "bar3", "bar4", "bar5", "bar6", "bar7", "bar8",
      "bar7", "bar6", "bar5", "bar4", "bar3", "bar2">>

\* The styles and frame sequences a spinner is constructed with (no frames: <<>>)
\* and the statuses set on a StatusSpinner.
SpinnerStyles == DOMAIN SPINNERS \cup {"nope"}
CustomFrames == {<<"x">>, <<"x", "y">>, <<"x", "y", "z">>}
SpinnerStatuses ==
    DOMAIN STATUS_ICONS \cup {"streaming", "thinking", "executing"}

\* Spinner.__init__ (28-41)
Spinner(style, frames) ==
    LET f == IF frames # <<>> THEN frames
             ELSE IF style \in DOMAIN SPINNERS THEN SPINNERS[style]
             ELSE SPINNERS[DEFAULT_SPINNER]
    IN [kind |-> "Spinner", frames |-> f, index |-> 0, frame_count |-> Len(f),
        status |-> None, streaming_index |-> 0]

\* StatusSpinner.__init__ (70-73)
StatusSpinner(style) ==
    [Spinner(style, <<>>) EXCEPT !.kind = "StatusSpinner", !.status = "thinking"]

\* Spinner.next_frame (43-47): the frame returned and the spinner afterwards.
Spinner_next_frame(sp) ==
    [returned |-> sp.frames[sp.index + 1],
     spinner |-> [sp EXCEPT !.index = (sp.index + 1) % sp.frame_count]]

\* StatusSpinner.next_frame (79-88)
StatusSpinner_next_frame(sp) ==
    IF sp.status \in DOMAIN STATUS_ICONS
    THEN [returned |-> STATUS_ICONS[sp.status], spinner |-> sp]
    ELSE IF sp.status = "streaming"
    THEN [returned |-> STREAMING_FRAMES[sp.streaming_index + 1],
          spinner |-> [sp EXCEPT !.streaming_index =
                                    (sp.streaming_index + 1) % Len(STREAMING_FRAMES)]]
    ELSE Spinner_next_frame(sp)

next_frame(sp) ==
    IF sp.kind = "StatusSpinner" THEN StatusSpinner_next_frame(sp)
    ELSE Spinner_next_frame(sp)

\* Spinner.current_frame (49-51)
current_frame(sp) == sp.frames[sp.index + 1]

\* Spinner.reset (53-55)
reset_keeps_index(sp) == sp

reset(sp) == [sp EXCEPT !.index = 0]

\* StatusSpinner.set_status (75-77)
set_status(sp, status) == [sp EXCEPT !.status = status]

\* No call yet. calls: the next_frame calls since the construction or the last
\* reset(); streamed: the next_frame calls made while the status was streaming.
NoSpinnerCall ==
    [op |-> None, returned |-> None, before |-> None, calls |-> 0, streamed |-> 0]

InitSpinnerVars ==
    /\ spinner \in {Spinner(style, <<>>) : style \in SpinnerStyles}
                   \cup {Spinner(DEFAULT_SPINNER, f) : f \in CustomFrames}
                   \cup {StatusSpinner(style) : style \in {"dots", "line", "nope"}}
    /\ hspin = [NoSpinnerCall EXCEPT !.before = spinner]

ParkedSpinnerVars ==
    /\ spinner = Spinner(DEFAULT_SPINNER, <<>>)
    /\ hspin = [NoSpinnerCall EXCEPT !.before = spinner]

NextFrame ==
    LET streaming == spinner.kind = "StatusSpinner" /\ spinner.status = "streaming"
    IN /\ hspin.calls < MaxCalls
       /\ hspin.streamed < MaxCalls
       /\ spinner' = next_frame(spinner).spinner
       /\ hspin' = [op |-> "next_frame", returned |-> next_frame(spinner).returned,
                    before |-> spinner, calls |-> hspin.calls + 1,
                    streamed |-> hspin.streamed + (IF streaming THEN 1 ELSE 0)]
       /\ UNCHANGED <<unstickVars, refreshVars, lockVars, hookVars, sinkVars, moduleVars>>

CurrentFrame ==
    /\ hspin' = [hspin EXCEPT !.op = "current_frame",
                              !.returned = current_frame(spinner),
                              !.before = spinner]
    /\ UNCHANGED spinner
    /\ UNCHANGED <<unstickVars, refreshVars, lockVars, hookVars, sinkVars, moduleVars>>

Reset ==
    /\ spinner' = reset(spinner)
    /\ hspin' = [hspin EXCEPT !.op = "reset", !.returned = None,
                              !.before = spinner, !.calls = 0]
    /\ UNCHANGED <<unstickVars, refreshVars, lockVars, hookVars, sinkVars, moduleVars>>

SetStatus(status) ==
    /\ spinner.kind = "StatusSpinner"
    /\ spinner' = set_status(spinner, status)
    /\ hspin' = [hspin EXCEPT !.op = "set_status", !.returned = None,
                              !.before = spinner]
    /\ UNCHANGED <<unstickVars, refreshVars, lockVars, hookVars, sinkVars, moduleVars>>

NextSpinner ==
    \/ NextFrame
    \/ CurrentFrame
    \/ Reset
    \/ \E status \in SpinnerStatuses : SetStatus(status)

\* ======================= amplifier_module_hooks_sessionindicator/__init__.py
\* The hook of the amplifier_module_hooks_sessionindicator package refreshes its
\* StatusLine from a daemon thread; its StatusLine writes to the stream of the
\* process.

\* The methods of StatusLine (terminal.py 73-165).
StatusLineMethods == {"__init__", "show", "hide", "update", "_write"}

NoCall == [op |-> None, raised |-> FALSE]

\* SessionIndicatorHook.__init__ (66-96), for either answer of
\* supports_status_line().
InitModuleVars ==
    /\ m_enabled \in BOOLEAN
    /\ m_running = FALSE
    /\ m_status_line = NoLine
    /\ m_sink = NewStatusLine
    /\ m_thread = [k \in Tasks |-> "none"]
    /\ m_starts = 0
    /\ m_call = NoCall

\* The same on a terminal that supports the status line, for the specifications
\* of other parts.
ParkedModuleVars ==
    /\ InitModuleVars
    /\ m_enabled

\* _start_display (121-129): nothing when the display runs or the hook is not
\* enabled; otherwise a new StatusLine and a new thread, started.
start_display(r, en) == ~r /\ en

\* on_session_start (194-198), registered on an enabled hook only (100-101).
OnSessionStart ==
    /\ m_enabled
    /\ IF start_display(m_running, m_enabled)
       THEN /\ m_starts < MaxSessions
            /\ m_running' = TRUE
            /\ m_status_line' = m_starts + 1
            /\ m_sink' = NewStatusLine
            /\ m_thread' = [m_thread EXCEPT ![m_starts + 1] = "ready"]
            /\ m_starts' = m_starts + 1
       ELSE UNCHANGED <<m_running, m_status_line, m_sink, m_thread, m_starts>>
    /\ m_call' = [op |-> "on_session_start", raised |-> FALSE]
    /\ UNCHANGED m_enabled
    /\ UNCHANGED <<unstickVars, refreshVars, lockVars, hookVars, sinkVars,
                   spinnerVars>>

\* stop (186-191): what the call does to status_line, and whether it raises:
\* `self.status_line.clear()` raises AttributeError when StatusLine has no
\* method clear, before status_line is set to None.
stop(line) ==
    IF line = NoLine THEN [raised |-> FALSE, line |-> NoLine]
    ELSE IF "clear" \in StatusLineMethods THEN [raised |-> FALSE, line |-> NoLine]
    ELSE [raised |-> TRUE, line |-> line]

\* on_session_end (200-202, registered on an enabled hook only) or the cleanup
\* function mount returned (54-56): both call stop().
Stop(op) ==
    /\ op = "on_session_end" => m_enabled
    /\ m_running' = FALSE
    /\ m_status_line' = stop(m_status_line).line
    /\ m_call' = [op |-> op, raised |-> stop(m_status_line).raised]
    /\ UNCHANGED <<m_enabled, m_sink, m_thread, m_starts>>
    /\ UNCHANGED <<unstickVars, refreshVars, lockVars, hookVars, sinkVars,
                   spinnerVars>>

\* _update_loop (131-138) with _render_status (140-184): one iteration of the
\* k-th thread, which renders line c. The wait (136) is inside the try: after an
\* exception the loop tests _running again at once.
ThreadRenders(k, c) ==
    /\ m_thread[k] \in {"ready", "sleeping", "retry"}
    /\ m_running
    /\ IF m_status_line = NoLine \/ ~m_enabled
       THEN /\ m_thread' = [m_thread EXCEPT ![k] = after_render(FALSE)]
            /\ UNCHANGED m_sink
       ELSE LET r == update(m_sink, c, stream)
            IN /\ m_sink' = SinkOf(r)
               /\ m_thread' = [m_thread EXCEPT ![k] = after_render(r.raised)]
    /\ UNCHANGED <<m_enabled, m_running, m_status_line, m_starts, m_call>>
    /\ UNCHANGED <<unstickVars, refreshVars, lockVars, hookVars, sinkVars,
                   spinnerVars>>

\* _update_loop, 133: the loop ends when _running is false.
ThreadExits(k) ==
    /\ m_thread[k] \in {"ready", "sleeping", "retry"}
    /\ ~m_running
    /\ m_thread' = [m_thread EXCEPT ![k] = "done"]
    /\ UNCHANGED <<m_enabled, m_running, m_status_line, m_sink, m_starts, m_call>>
    /\ UNCHANGED <<unstickVars, refreshVars, lockVars, hookVars, sinkVars,
                   spinnerVars>>

NextModule ==
    \/ OnSessionStart
    \/ \E op \in {"on_session_end", "cleanup"} : Stop(op)
    \/ \E k \in Tasks, c \in RenderLines : ThreadRenders(k, c)
    \/ \E k \in Tasks : ThreadExits(k)
    \/ StreamFails

\* =========================================================== specifications

\* One handler and one caller, with the clock and the signals.
NextUnstick ==
    \/ Tick
    \/ HandleSigint("A")
    \/ \E d \in BOOLEAN : WaitStart("w1", "A", d)
    \/ TaskComplete("w1")
    \/ WaitWake("w1")
    \/ WaitCancelled("w1")
    \/ WaitUnwound("w1")

InitUnstick == InitUnstickVars /\ ParkedRefreshVars /\ ParkedLockVars /\ InitHookVars
               /\ ParkedSinkVars /\ ParkedSpinnerVars /\ ParkedModuleVars

SpecUnstick == InitUnstick /\ [][NextUnstick]_vars

\* Every handler and every caller, concurrently, without the clock and the signals
\* (install and uninstall read neither).
NextInstall ==
    \/ \E w \in Waiters, h \in Handlers, d \in BOOLEAN : WaitStart(w, h, d)
    \/ \E w \in Waiters : TaskComplete(w)
    \/ \E w \in Waiters : WaitWake(w)
    \/ \E w \in Waiters : WaitCancelled(w)
    \/ \E w \in Waiters : WaitUnwound(w)

SpecInstall == InitUnstick /\ [][NextInstall]_vars

NextRefresh ==
    \/ \E type \in EventNames : \E p \in PayloadsOf(type) : OnEventDisabled(type, p)
    \/ HandleSessionStart
    \/ \E e \in Ends : HandleSessionEnd(e)
    \/ \E e \in Ends : SessionEndResume(e)
    \/ \E e \in Ends : SessionEndHide(e)
    \/ \E t \in Tasks : TaskCancelled(t)
    \/ \E t \in Tasks : TaskExits(t)
    \/ \E t \in Tasks, c \in RenderLines : TaskRenders(t, c)
    \/ StreamFails

\* The display lifecycle of one hook on its event loop.
InitRefresh == InitRefreshVars /\ ParkedUnstickVars /\ ParkedLockVars /\ InitHookVars
               /\ ParkedSinkVars /\ ParkedSpinnerVars /\ ParkedModuleVars

SpecRefresh == InitRefresh /\ [][NextRefresh]_vars

\* One step of refresh task t, and one resumption of the e-th session:end.
TaskStep(t) ==
    TaskCancelled(t) \/ TaskExits(t) \/ (\E c \in RenderLines : TaskRenders(t, c))

EndStep(e) == SessionEndResume(e) \/ SessionEndHide(e)

\* The same lifecycle on an event loop that runs every coroutine that stays
\* ready to run: a task whose sleep is over or that holds the loop, a handler
\* whose await or sleep is over. Events arrive when the session sends them.
SpecRefreshFair ==
    /\ SpecRefresh
    /\ \A t \in Tasks : WF_vars(TaskStep(t))
    /\ \A e \in Ends : WF_vars(EndStep(e))

\* The SessionState lock: two callers of on_event and the refresh thread.
InitLock == InitLockVars /\ ParkedUnstickVars /\ ParkedRefreshVars /\ InitHookVars
            /\ ParkedSinkVars /\ ParkedSpinnerVars /\ ParkedModuleVars

SpecLock == InitLock /\ [][NextLock]_vars

\* The events of one hook, one whole on_event call per step, with the clock.
InitHook ==
    /\ InitHookVars
    /\ InitLockVars
    /\ ParkedUnstickVars
    /\ ParkedRefreshVars
    /\ ParkedSinkVars
    /\ ParkedSpinnerVars
    /\ ParkedModuleVars

SpecHook == InitHook /\ [][NextHook]_vars

\* One StatusLine and its stream.
InitSink ==
    /\ InitSinkVars
    /\ InitRefreshVars
    /\ enabled
    /\ ParkedUnstickVars
    /\ ParkedLockVars
    /\ InitHookVars
    /\ ParkedSpinnerVars
    /\ ParkedModuleVars

SpecSink == InitSink /\ [][NextSink]_vars

\* One spinner of either class.
InitSpinner ==
    /\ InitSpinnerVars
    /\ ParkedUnstickVars
    /\ ParkedRefreshVars
    /\ ParkedLockVars
    /\ InitHookVars
    /\ ParkedSinkVars
    /\ ParkedModuleVars

SpecSpinner == InitSpinner /\ [][NextSpinner]_vars

\* The hook that refreshes from a thread, and the stream of the process.
InitModule ==
    /\ InitModuleVars
    /\ ParkedUnstickVars
    /\ ParkedRefreshVars
    /\ ParkedLockVars
    /\ InitHookVars
    /\ ParkedSinkVars
    /\ ParkedSpinnerVars

SpecModule == InitModule /\ [][NextModule]_vars

\* ------------------------------------------------------------ claims C1..C6

\* C1: on a signal at time T handled by h, interruptCount becomes its previous
\* value + 1 when a previous signal was handled at T0 with T - T0 < 2 seconds, and
\* 1 otherwise (no previous signal, or T - T0 >= 2); lastInterruptAt becomes T.
C1_EscalationRule ==
    [][\A h \in Handlers :
        HandleSigint(h) =>
            /\ interrupt_count'[h] =
                  IF last_interrupt[h] >= 0 /\ now - last_interrupt[h] < 2
                  THEN interrupt_count[h] + 1
                  ELSE 1
            /\ last_interrupt'[h] = now]_vars

\* A second signal arrived two seconds or more after the first and reset the count,
\* after an escalation to 2 (the last signal is the one at time now).
C1_Witness ==
    \E h \in Handlers :
        /\ interrupt_count[h] = 1
        /\ last_interrupt[h] = now
        /\ now >= 2
        /\ dispatched.handler = h

Uninstalls(h) == installed[h] /\ ~installed'[h]

\* C4: for every handler value H in place before install(), after install()
\* followed by uninstall() the process's SIGINT handler is H again and the
\* UnstickHandler reports not installed. (pre_install[h] is H; the uninstall follows
\* the install when h is still the handler in place.)
C4_RestoresPrevious ==
    [][\A h \in Handlers :
        /\ (Uninstalls(h) /\ sigint = h) => sigint' = pre_install[h]
        /\ \A w \in Waiters :
              (WaitStart(w, h, TRUE) /\ ~installed[h]) =>
                  (sigint' = sigint /\ ~installed'[h])]_vars

\* The same, for the handlers that were installed from Python.
C4_RestoresPythonHandler ==
    [][\A h \in Handlers :
        (Uninstalls(h) /\ sigint = h /\ pre_install[h] # "NonPython")
            => sigint' = pre_install[h]]_vars

\* C5: install() on an installed handler changes neither the process handler, nor
\* the installed flag, nor the recorded previous handler; uninstall() on a handler
\* that is not installed changes nothing either.
C5_RepeatedInstallIsNoOp ==
    [][\A w \in Waiters : \A h \in Handlers :
        /\ (WaitStart(w, h, FALSE) /\ installed[h]) =>
              UNCHANGED <<sigint, installed, original_handler>>
        /\ (wpc[w] = "sleeping" /\ wpc'[w] = "idle" /\ whandler[w] = h
              /\ ~installed[h]) =>
              UNCHANGED <<sigint, installed, original_handler>>]_vars

\* Two calls wait with the same, installed handler: the second install was a no-op.
C5_Witness ==
    /\ wpc["w1"] = "sleeping"
    /\ wpc["w2"] = "sleeping"
    /\ whandler["w1"] = whandler["w2"]
    /\ installed[whandler["w1"]]
    /\ original_handler[whandler["w1"]] # whandler["w1"]

\* C6: while a call of wait_for_unstick_or_complete waits (from its first poll to
\* its exit) its handler is installed, and when the call ends, however it ends, the
\* handler is uninstalled.
C6_InstalledWhileWaiting ==
    \A w \in Waiters : wpc[w] = "sleeping" => installed[whandler[w]]

C6_UninstalledOnExit ==
    [][\A w \in Waiters :
        (wpc[w] = "sleeping" /\ wpc'[w] = "idle") => ~installed'[whandler[w]]]_vars

C6_ScopedInstall == []C6_InstalledWhileWaiting /\ C6_UninstalledOnExit

\* ----------------------------------------------------------- claims C7..C10

\* The e-th session:end handler has pushed its summary (it sleeps before hide(), or
\* has hidden the sink).
SummaryPushed(e) == epc[e] \in {"pausing", "done"} /\ status_line # NoLine

\* C7: on session:end the refresh task has terminated before the final summary is
\* pushed and before hide(): once a session:end handler has pushed its summary, no
\* refresh task started before that session:end is alive, and none pushes an update.
C7_TerminatedBeforeSummary ==
    \A e \in Ends : SummaryPushed(e) =>
        \A t \in Tasks : t <= ebegin[e] => ~Alive(t)

C7_NoPushAfterSummary ==
    [][\A t \in Tasks, c \in RenderLines :
        TaskRenders(t, c) =>
            ~\E e \in Ends : SummaryPushed(e) /\ t <= ebegin[e]]_vars

C7_RefreshStopsBeforeSummary == []C7_TerminatedBeforeSummary /\ C7_NoPushAfterSummary

\* With one session:start before the session:end the task has terminated when the
\* summary is pushed.
C7_SingleStart ==
    \A e \in Ends : (SummaryPushed(e) /\ ebegin[e] = 1) => ~Alive(1)

\* C8: at most one refresh task is alive at any time, and the hook holds a
\* reference to every live refresh task.
C8_OneReferencedTask ==
    /\ Cardinality({t \in Tasks : Alive(t)}) <= 1
    /\ \A t \in Tasks : Alive(t) => update_task = t

\* Thread th is inside a render: it reads the SessionState fields.
Reading(th) == pc[th] = "reading"

\* Caller c has made some, not all, of the assignments of its handler.
PartlyApplied(c) == pc[c] = "writing" /\ capplied[c] > 0 /\ cwrites[c] # <<>>

C9_ReadsHoldLock ==
    /\ Cardinality(lock) <= 1
    /\ \A th \in Threads : Reading(th) =>
          /\ th \in lock
          /\ \A c \in Callers : ~PartlyApplied(c)

C9_WritesHoldLock ==
    [][\A c \in Callers : (CallerWrite(c) \/ CallerTouch(c)) => c \in lock]_vars

\* C9: every assignment to a SessionState field by an event handler (and by
\* on_event) and every read of the fields for the status line or the final summary
\* is made by a thread that holds the one lock, so no render reads the state while
\* a handler has made only part of its assignments.
C9_LockCoversState == []C9_ReadsHoldLock /\ C9_WritesHoldLock

\* The refresh thread renders while a caller waits for the lock, after tool:pre
\* made both of its assignments.
C9_Witness ==
    /\ Reading(Refresh)
    /\ \E c \in Callers : pc[c] = "want"
    /\ state.status = "executing"
    /\ state.current_tool = <<"bash">>

\* C10: an error raised while rendering or pushing inside the refresh never ends
\* the task, and after it the loop waits the interval before its next render
\* attempt: every iteration that renders ends at the sleep.
C10_ErrorWaitsForNextTick ==
    [][\A t \in Tasks, c \in RenderLines :
        TaskRenders(t, c) => tstate'[t] = "sleeping"]_vars

\* The part of C10 that holds: the error does not end the task.
C10_ErrorKeepsTask ==
    [][\A t \in Tasks, c \in RenderLines : TaskRenders(t, c) => Alive(t)']_vars

\* ---------------------------------------------------------- claims C11..C20

\* The observed on_event call handled an event of this name.
Observed(type) == hev.type = type

\* C11: after session:start the SessionState is a new one, whatever the state
\* before: session_id is the payload's id, status is starting, the token and turn
\* counters are 0, current_tool is cleared, is_streaming is false and
\* active_subsessions is empty; started_at is the time of the event.
C11_StartReplacesState ==
    Observed("session:start") =>
        /\ state.session_id = hev.p.session_id
        /\ state.status = "starting"
        /\ state.input_tokens = 0
        /\ state.output_tokens = 0
        /\ state.turn_count = 0
        /\ state.current_tool = <<>>
        /\ state.is_streaming = FALSE
        /\ DOMAIN state.active_subsessions = {}
        /\ state.started_at = now

\* session:start arrived in a session that had counted tokens and a turn, was
\* delegating to a sub-session and streaming.
C11_Witness ==
    /\ Observed("session:start")
    /\ hprev.started_at # NoTime
    /\ hprev.input_tokens > 0
    /\ hprev.output_tokens > 0
    /\ hprev.turn_count > 0
    /\ hprev.status = "delegating"
    /\ hprev.is_streaming
    /\ DOMAIN hprev.active_subsessions # {}

\* C12: in every reachable state status is one of the eight values starting,
\* idle, thinking, processing, streaming, executing, delegating, error.
C12_StatusEnumerated ==
    state.status \in {"starting", "idle", "thinking", "processing", "streaming",
                      "executing", "delegating", "error"}

\* turn:end arrived while delegating and left the status idle.
C12_Witness ==
    /\ Observed("turn:end")
    /\ hprev.status = "delegating"
    /\ state.status = "idle"

\* An observed call within one session: any event but session:start.
WithinSession == hev # NoEvent /\ ~Observed("session:start")

\* C13: within one session, output_tokens never decreases, and input_tokens
\* decreases only on an llm:response that carries a usage object with an absolute
\* input value.
C13_TokensMonotone ==
    WithinSession =>
        /\ state.output_tokens >= hprev.output_tokens
        /\ state.input_tokens < hprev.input_tokens =>
              /\ Observed("llm:response")
              /\ hev.p.has_usage
              /\ hev.p.usage_input >= 0

\* A usage report lowered input_tokens and added to output_tokens.
C13_Witness ==
    /\ Observed("llm:response")
    /\ hev.p.has_usage
    /\ state.input_tokens < hprev.input_tokens
    /\ hprev.output_tokens > 0
    /\ state.output_tokens > hprev.output_tokens

\* C14: llm:response with a token count adds it to output_tokens and leaves
\* input_tokens alone, usage object or not; otherwise with a usage object
\* input_tokens becomes its input value when present and its output value when
\* present is added to output_tokens; with neither both counters stay. llm:request
\* adds its token count, when present, to input_tokens.
C14_TokenAccounting ==
    /\ Observed("llm:response") =>
          IF hev.p.token_count >= 0
          THEN /\ state.output_tokens = hprev.output_tokens + hev.p.token_count
               /\ state.input_tokens = hprev.input_tokens
          ELSE IF hev.p.has_usage
          THEN /\ state.input_tokens = IF hev.p.usage_input >= 0
                                       THEN hev.p.usage_input
                                       ELSE hprev.input_tokens
               /\ state.output_tokens = IF hev.p.usage_output >= 0
                                        THEN hprev.output_tokens + hev.p.usage_output
                                        ELSE hprev.output_tokens
          ELSE /\ state.input_tokens = hprev.input_tokens
               /\ state.output_tokens = hprev.output_tokens
    /\ Observed("llm:request") =>
          /\ state.input_tokens = IF hev.p.token_count >= 0
                                  THEN hprev.input_tokens + hev.p.token_count
                                  ELSE hprev.input_tokens
          /\ state.output_tokens = hprev.output_tokens

\* An llm:response carried a token count and a usage object with a lower input
\* value: the count was added and the usage object ignored.
C14_Witness ==
    /\ Observed("llm:response")
    /\ hev.p.token_count >= 0
    /\ hev.p.has_usage
    /\ hev.p.usage_input < hprev.input_tokens
    /\ state.input_tokens = hprev.input_tokens
    /\ state.output_tokens = hprev.output_tokens + hev.p.token_count

SameDisplayFields ==
    /\ state.status = hprev.status
    /\ state.current_tool = hprev.current_tool
    /\ state.input_tokens = hprev.input_tokens
    /\ state.output_tokens = hprev.output_tokens
    /\ state.turn_count = hprev.turn_count
    /\ state.is_streaming = hprev.is_streaming
    /\ state.active_subsessions = hprev.active_subsessions

\* C16: an event whose name is not one of the 14 subscribed names runs no
\* transition: status, current_tool, input_tokens, output_tokens, turn_count,
\* is_streaming and active_subsessions stay as they were.
C16_UnsubscribedIgnored ==
    (hev # NoEvent /\ hev.type \notin SUBSCRIBED_EVENTS) => SameDisplayFields

\* The part of C16 that holds: a name that spells no handler runs no transition.
C16_NoHandlerIgnored ==
    Observed("other:event") => SameDisplayFields

\* C17: task:agent_spawned(s, a) leaves s in active_subsessions mapped to a, with
\* status delegating and current_tool "-> a"; task:agent_complete(s) for a present
\* s removes s and nothing else, and when active_subsessions is then empty the
\* status is thinking and current_tool is cleared.
C17_SubsessionTracking ==
    /\ (Observed("task:agent_spawned") /\ hev.p.session_id # Absent
                                       /\ hev.p.agent # Absent) =>
          /\ hev.p.session_id \in DOMAIN state.active_subsessions
          /\ state.active_subsessions[hev.p.session_id] = hev.p.agent
          /\ state.status = "delegating"
          /\ state.current_tool = <<"-> ", hev.p.agent>>
    /\ (Observed("task:agent_complete")
            /\ hev.p.session_id \in DOMAIN hprev.active_subsessions) =>
          /\ DOMAIN state.active_subsessions =
                DOMAIN hprev.active_subsessions \ {hev.p.session_id}
          /\ \A k \in DOMAIN state.active_subsessions :
                state.active_subsessions[k] = hprev.active_subsessions[k]
          /\ DOMAIN state.active_subsessions = {} =>
                (state.status = "thinking" /\ state.current_tool = <<>>)

\* The part of C17 that holds: the spawn half as stated, and the completion
\* half for every id that is not the empty string (which line 273 takes for no
\* id at all and leaves in the map).
C17_NonEmptyIdTracking ==
    /\ (Observed("task:agent_spawned") /\ hev.p.session_id # Absent
                                       /\ hev.p.agent # Absent) =>
          /\ hev.p.session_id \in DOMAIN state.active_subsessions
          /\ state.active_subsessions[hev.p.session_id] = hev.p.agent
          /\ state.status = "delegating"
          /\ state.current_tool = <<"-> ", hev.p.agent>>
    /\ (Observed("task:agent_complete")
            /\ hev.p.session_id # ""
            /\ hev.p.session_id \in DOMAIN hprev.active_subsessions) =>
          /\ DOMAIN state.active_subsessions =
                DOMAIN hprev.active_subsessions \ {hev.p.session_id}
          /\ \A k \in DOMAIN state.active_subsessions :
                state.active_subsessions[k] = hprev.active_subsessions[k]
          /\ DOMAIN state.active_subsessions = {} =>
                (state.status = "thinking" /\ state.current_tool = <<>>)

\* The last sub-session completed while the hook was delegating to it.
C17_Witness ==
    /\ Observed("task:agent_complete")
    /\ hev.p.session_id = "s1"
    /\ DOMAIN hprev.active_subsessions = {"s1"}
    /\ hprev.active_subsessions["s1"] = "explorer"
    /\ hprev.status = "delegating"
    /\ hprev.current_tool = <<"-> ", "explorer">>
    /\ DOMAIN state.active_subsessions = {}
    /\ state.status = "thinking"

\* C18: task:agent_complete naming an id that is not in active_subsessions
\* leaves active_subsessions, status and current_tool as they were, also when
\* active_subsessions is empty.
C18_UnknownCompleteIsNoOp ==
    (Observed("task:agent_complete")
        /\ hev.p.session_id # Absent
        /\ hev.p.session_id \notin DOMAIN hprev.active_subsessions) =>
        /\ state.active_subsessions = hprev.active_subsessions
        /\ state.status = hprev.status
        /\ state.current_tool = hprev.current_tool

\* The part of C18 that holds: active_subsessions is never changed by it, and
\* with another sub-session active nothing is.
C18_NoOpWhileOthersActive ==
    (Observed("task:agent_complete")
        /\ hev.p.session_id # Absent
        /\ hev.p.session_id \notin DOMAIN hprev.active_subsessions) =>
        /\ state.active_subsessions = hprev.active_subsessions
        /\ DOMAIN hprev.active_subsessions # {} =>
              /\ state.status = hprev.status
              /\ state.current_tool = hprev.current_tool

\* C19: the status after session:error, llm:request, llm:response,
\* llm:stream_start, llm:stream_end, tool:pre, tool:post, turn:start, turn:end is
\* error, thinking, processing, streaming, processing, executing, thinking,
\* thinking, idle, whatever the state before; tool:pre sets current_tool to the
\* payload's tool name ("tool" without one); tool:post, turn:end and llm:request
\* clear current_tool.
C19_TransitionTable ==
    /\ Observed("session:error") => state.status = "error"
    /\ Observed("llm:request") =>
          (state.status = "thinking" /\ state.current_tool = <<>>)
    /\ Observed("llm:response") => state.status = "processing"
    /\ Observed("llm:stream_start") => state.status = "streaming"
    /\ Observed("llm:stream_end") => state.status = "processing"
    /\ Observed("tool:pre") =>
          /\ state.status = "executing"
          /\ state.current_tool =
                IF hev.p.tool_name # Absent THEN <<hev.p.tool_name>>
                ELSE IF hev.p.name # Absent THEN <<hev.p.name>>
                ELSE <<"tool">>
    /\ Observed("tool:post") =>
          (state.status = "thinking" /\ state.current_tool = <<>>)
    /\ Observed("turn:start") => state.status = "thinking"
    /\ Observed("turn:end") => (state.status = "idle" /\ state.current_tool = <<>>)

\* tool:post arrived while a tool was executing.
C19_Witness ==
    /\ Observed("tool:post")
    /\ hprev.status = "executing"
    /\ hprev.current_tool = <<"bash">>
    /\ state.status = "thinking"
    /\ state.current_tool = <<>>

\* C20: no event but session:start changes session_id or started_at.
C20_IdentityFixed ==
    WithinSession =>
        /\ state.session_id = hprev.session_id
        /\ state.started_at = hprev.started_at

\* turn:start arrived one second into a session.
C20_Witness ==
    /\ Observed("turn:start")
    /\ hprev.session_id = "S1"
    /\ hprev.started_at = 0
    /\ now = 1
    /\ state.started_at = 0
    /\ state.session_id = "S1"

\* ---------------------------------------------------------- claims C21..C30

\* C21: every turn:start adds exactly 1 to turn_count, session:start sets it to
\* 0 and no other event changes it, so it counts the turn:start events since
\* the last session:start; the summary formatted at session:end carries it.
C21_TurnCount ==
    /\ Observed("turn:start") => state.turn_count = hprev.turn_count + 1
    /\ Observed("session:start") => state.turn_count = 0
    /\ (hev # NoEvent /\ replace_colon(hev.type) \notin {"turn_start", "session_start"})
          => state.turn_count = hprev.turn_count
    /\ Observed("session:end")
          => format_final_summary(hprev, now)[4] = state.turn_count

\* A session:end that follows a counted turn.
C21_Witness ==
    /\ Observed("session:end")
    /\ hprev.turn_count = 1
    /\ hprev.session_id = "S1"
    /\ format_final_summary(hprev, now)[4] = 1
\* C22: once session:end has been handled (a session was started and the hook
\* is not running), an event other than session:start leaves the SessionState
\* as it was.
C22_NoChangeAfterEnd ==
    (/\ hev # NoEvent
     /\ replace_colon(hev.type) \notin {"session_start", "session_end"}
     /\ hprev.started_at # NoTime
     /\ ~running) => state = hprev

\* The part of C22 that holds: after session:end the identity of the ended
\* session stays, and an event without a handler changes only last_activity.
C22_EndedSessionKeepsIdentity ==
    (/\ hev # NoEvent
     /\ replace_colon(hev.type) \notin {"session_start", "session_end"}
     /\ hprev.started_at # NoTime
     /\ ~running) =>
        /\ state.session_id = hprev.session_id
        /\ state.started_at = hprev.started_at
        /\ HandlerWrites(hev.type, hev.p, hprev, now) = <<>>
              => state = [hprev EXCEPT !.last_activity = now]
\* C23: the stuck warning is never shown while status is idle; for every other
\* status it is shown exactly when the time since last_activity exceeds the
\* configured threshold (60 when not configured), strictly.
C23_StuckPredicate ==
    hstuck.evaluated =>
        LET threshold == IF hstuck.config = <<>> THEN 60 ELSE hstuck.config[1]
            idle_for == IF state.last_activity = NoTime THEN 0
                        ELSE now - state.last_activity
        IN /\ state.status = "idle" => ~hstuck.shown
           /\ state.status # "idle" => (hstuck.shown <=> idle_for > threshold)

\* Executing and one second without activity: a threshold of 0 warns.
C23_Witness ==
    /\ hstuck = [evaluated |-> TRUE, config |-> <<0>>, shown |-> TRUE]
    /\ state.status = "executing"
    /\ now - state.last_activity = 1
\* C24: on a hook constructed while the capability check answered no, on_event
\* does nothing for any event: the SessionState (last_activity included) stays
\* as it was, no StatusLine is created or shown, no refresh task is started.
C24_DisabledDoesNothing ==
    ~enabled =>
        /\ state = NoState
        /\ hev # NoEvent => state = hprev
        /\ ~running
        /\ status_line = NoLine
        /\ update_task = NoTask
        /\ nsessions = 0
        /\ \A k \in Tasks : sink[k] = NewStatusLine /\ tstate[k] = "none"

\* A session:start was delivered to a hook that is not enabled.
C24_Witness ==
    /\ ~enabled
    /\ Observed("session:start")
    /\ hev.p.session_id = "S1"
    /\ status_line = NoLine
\* The last call on the StatusLine had to write: a show() of a hidden sink at the
\* bottom, a hide() of a visible sink, an update() of a visible sink with
\* content other than the content it shows.
WriteAttempted ==
    LET o == hsink.last
    IN \/ o.op = "show" /\ ~o.before.visible /\ position = "bottom"
       \/ o.op = "hide" /\ o.before.visible
       \/ o.op = "update" /\ o.before.visible /\ Truncate(o.c) # o.before.last

\* C25: a sink operation whose write fails does not raise and leaves the sink
\* not visible; an update() of a sink that is not visible writes nothing and
\* changes nothing, and only show() makes the sink visible again.
C25_WriteFailureDegrades ==
    LET o == hsink.last
    IN /\ (WriteAttempted /\ o.stream # "ok") => (~o.raised /\ ~sink[1].visible)
       /\ (o.op = "update" /\ ~o.before.visible) =>
             (o.wrote = 0 /\ ~o.raised /\ sink[1] = o.before)
       /\ (o.op \in {"update", "hide"} /\ ~o.before.visible) => ~sink[1].visible

\* The part of C25 that holds: the same, for writes that fail with an OSError.
C25_OSErrorDegrades ==
    LET o == hsink.last
    IN /\ (WriteAttempted /\ o.stream = "broken") => (~o.raised /\ ~sink[1].visible)
       /\ (o.op = "update" /\ ~o.before.visible) =>
             (o.wrote = 0 /\ ~o.raised /\ sink[1] = o.before)
       /\ (o.op \in {"update", "hide"} /\ ~o.before.visible) => ~sink[1].visible

\* C26: on a visible sink the second of two update() calls with the same
\* content writes nothing; show() on a visible sink and hide() on a hidden
\* sink write nothing and change no field.
C26_SinkIdempotence ==
    LET o == hsink.last
        q == hsink.prev
    IN /\ (/\ q.op = "update" /\ q.before.visible
            /\ o.op = "update" /\ o.c = q.c) =>
              (o.wrote = 0 /\ ~o.raised /\ sink[1] = o.before)
       /\ (o.op = "show" /\ o.before.visible) =>
              (o.wrote = 0 /\ ~o.raised /\ sink[1] = o.before)
       /\ (o.op = "hide" /\ ~o.before.visible) =>
              (o.wrote = 0 /\ ~o.raised /\ sink[1] = o.before)

\* update(c) wrote c on a visible sink and the same update(c) followed.
C26_Witness ==
    /\ hsink.prev.op = "update" /\ hsink.prev.before.visible
    /\ hsink.prev.wrote = 1
    /\ hsink.prev.c = <<"a", "b", "c", "d", "e">>
    /\ hsink.last.op = "update" /\ hsink.last.c = hsink.prev.c
    /\ hsink.last.before.visible
    /\ hsink.last.wrote = 0
\* C27: on a Spinner the k-th next_frame() call (from 0) since the construction
\* or the last reset() returns frames[k mod len(frames)]; current_frame()
\* returns the frame the next next_frame() call will return and advances
\* nothing.
C27_FrameCycle ==
    LET frames == spinner.frames
    IN (hspin.op # None /\ spinner.kind = "Spinner") =>
          /\ hspin.op = "next_frame" =>
                hspin.returned = frames[((hspin.calls - 1) % Len(frames)) + 1]
          /\ hspin.op = "current_frame" =>
                /\ hspin.returned = frames[(hspin.calls % Len(frames)) + 1]
                /\ spinner = hspin.before

\* The fourth call on a spinner of three custom frames wrapped to the first.
C27_Witness ==
    /\ spinner.kind = "Spinner"
    /\ spinner.frames = <<"x", "y", "z">>
    /\ hspin.op = "next_frame"
    /\ hspin.calls = 4
    /\ hspin.returned = "x"

\* The eight bars by height, lowest first.
Waveform == <<"bar1", "bar2", "bar3", "bar4", "bar5", "bar6", "bar7", "bar8">>

\* C28: on a StatusSpinner whose status is streaming the successive
\* next_frame() calls return the eight bars in ascending order and wrap from the
\* highest to the lowest; with status idle, error, success or warning
\* next_frame() returns the status's glyph and advances nothing.
C28_StreamingWaveform ==
    (hspin.op = "next_frame" /\ hspin.before.kind = "StatusSpinner") =>
        /\ hspin.before.status = "streaming" =>
              hspin.returned = Waveform[((hspin.streamed - 1) % 8) + 1]
        /\ hspin.before.status \in {"idle", "error", "success", "warning"} =>
              /\ hspin.returned = STATUS_ICONS[hspin.before.status]
              /\ spinner = hspin.before

\* The part of C28 that holds: the first eight streaming calls ascend through the
\* eight bars, and the four fixed glyphs.
C28_AscentAndFixedGlyphs ==
    (hspin.op = "next_frame" /\ hspin.before.kind = "StatusSpinner") =>
        /\ (hspin.before.status = "streaming" /\ hspin.streamed <= 8) =>
              hspin.returned = Waveform[hspin.streamed]
        /\ hspin.before.status \in {"idle", "error", "success", "warning"} =>
              /\ hspin.returned = STATUS_ICONS[hspin.before.status]
              /\ spinner = hspin.before
\* C29: wait_for_unstick_or_complete returns True only with the awaited task
\* done, and returns False exactly when CancelledError interrupted its wait.
C29_ReturnValue ==
    wreturn.waiter # None =>
        /\ wreturn.result = "true" => (wreturn.done /\ wreturn.exc = None)
        /\ wreturn.result = "false" <=> wreturn.exc = "CancelledError"

\* A call that slept returned False on cancellation, its task not done.
C29_Witness ==
    /\ wreturn = [waiter |-> "w1", result |-> "false", done |-> FALSE,
                  exc |-> "CancelledError"]
    /\ wpc["w1"] = "idle"
\* A step the holder of the lock takes on its own, towards the end of its
\* `with` block.
HolderStep(th) ==
    CallerWrite(th) \/ CallerRelease(th) \/ ReadRelease(th) \/ CallerTouch(th)

\* C30: no thread holds the SessionState lock while it performs an operation on
\* the StatusLine or is suspended at an await, no thread enters the lock while
\* it holds it, and whoever holds the lock can always go on to release it, so
\* handlers and refresh ticks never deadlock on it.
C30_LockHeldBriefly ==
    /\ \A th \in Threads :
          /\ pc[th] \in SinkOperations \cup Suspensions => th \notin lock
          /\ Entering(th) => th \notin lock
    /\ \A th \in lock : ENABLED HolderStep(th)

\* The refresh loop pushes its line while a caller holds the lock half way
\* through its handler's assignments and the other caller waits for the lock.
C30_Witness ==
    /\ pc[Refresh] = "pushing"
    /\ \E c \in Callers : c \in lock /\ PartlyApplied(c)
    /\ \E c \in Callers : pc[c] = "want"
\* ---------------------------------------------------------- claims C31..C37

\* The task the e-th session:end awaits has terminated.
Awaited(e) == eawait[e] # NoTask /\ tstate[eawait[e]] = "done"

\* C31: once a session:end has cancelled the refresh task the hook holds and
\* awaits it, that task eventually terminates and the handler eventually
\* completes, having hidden the StatusLine, also when the renders of the
\* refresh loop raise.
C31_ShutdownCompletes ==
    \A e \in Ends :
        (epc[e] = "awaiting") ~> (Awaited(e) /\ epc[e] = "done")

\* The part that holds: while every refresh task is at an await, the task a
\* session:end awaits terminates.
C31_AwaitedTaskEnds ==
    \A e \in Ends :
        (epc[e] = "awaiting") ~> (Awaited(e) \/ ~LoopFree)
\* C32: in every state the events can reach, a status of delegating comes with
\* at least one tracked sub-session.
C32_DelegatingHasSubsession ==
    state.status = "delegating" => DOMAIN state.active_subsessions # {}

\* A completion removed one of two tracked sub-sessions and the status still
\* says delegating.
C32_Witness ==
    /\ Observed("task:agent_complete")
    /\ Cardinality(DOMAIN hprev.active_subsessions) = 2
    /\ Cardinality(DOMAIN state.active_subsessions) = 1
    /\ state.status = "delegating"
\* The e-th session:end is in its final pause and a session:start was handled
\* since it pushed its summary.
StartedInPause(e) == epc[e] = "pausing" /\ status_line > epushed[e]

\* C33: when a session:end that was overtaken in its final pause by a
\* session:start completes, the StatusLine of the new session is as visible as
\* it was and the refresh task of the new session is as alive as it was.
C33_NewSessionUndisturbed ==
    [][\A e \in Ends :
          (StartedInPause(e) /\ epc'[e] # "pausing") =>
             /\ sink[status_line].visible => sink'[status_line].visible
             /\ (update_task # NoTask /\ Alive(update_task)) =>
                    (tstate'[update_task] = tstate[update_task])]_vars

\* The part of C33 that holds: the completing session:end leaves the refresh
\* task of the new session alone, and _running stays true.
C33_NewTaskUndisturbed ==
    [][\A e \in Ends :
          (StartedInPause(e) /\ epc'[e] # "pausing") =>
             /\ running' = running
             /\ tstate' = tstate /\ tcancel' = tcancel]_vars
\* Handler h handles the first signal since its latest install().
FirstSinceInstall(h) == fresh_install[h] /\ ~fresh_install'[h]

\* C34: the first signal a handler handles after an install() leaves its
\* interrupt count at 1 and dispatches the cancel action, whatever the handler
\* handled during an earlier installation.
C34_FirstInterruptCancels ==
    [][\A h \in Handlers :
          FirstSinceInstall(h) =>
             /\ interrupt_count'[h] = 1
             /\ dispatched'.hint = "cancel"]_vars

\* The part of C34 that holds: the first signal after an install() cancels when
\* the handler handled no signal before, or its last one at least the
\* escalation window earlier.
C34_FirstInterruptCancelsWhenIdle ==
    [][\A h \in Handlers :
          (FirstSinceInstall(h)
             /\ (last_interrupt[h] = NoTime
                    \/ now - last_interrupt[h] >= EscalationWindow)) =>
             /\ interrupt_count'[h] = 1
             /\ dispatched'.hint = "cancel"]_vars
\* Handler f was installed over a handler of the process, and handler s over f.
InstalledInTurn(f, s) ==
    /\ f # s
    /\ pre_install[f] \in PriorHandlers
    /\ pre_install[s] = f

\* This step uninstalls the last of the two handlers f and s.
BothUninstalled(f, s) ==
    /\ Uninstalls(f) \/ Uninstalls(s)
    /\ ~installed'[f] /\ ~installed'[s]

\* C35: when two handlers were installed one after the other and both have been
\* uninstalled, in either order, the process's SIGINT handler is the one that
\* was in place before the first install, and no handler that reports not
\* installed is the process's SIGINT handler.
C35_BothOrdersRestore ==
    [][\A f \in Handlers, s \in Handlers :
          (InstalledInTurn(f, s) /\ BothUninstalled(f, s)) =>
             /\ sigint' = pre_install[f]
             /\ \A h \in Handlers : sigint' = h => installed'[h]]_vars

\* The part of C35 that holds: uninstalled in the reverse order of the installs,
\* each while it is the process's handler, the second gives the process back
\* to the first and the first to the handler before it, when that one was
\* installed from Python.
C35_ReverseOrderRestores ==
    [][\A f \in Handlers, s \in Handlers :
          InstalledInTurn(f, s) =>
             /\ (Uninstalls(s) /\ sigint = s /\ installed[f]) =>
                    (sigint' = f /\ installed'[f])
             /\ (Uninstalls(f) /\ sigint = f /\ ~installed[s]
                    /\ pre_install[f] # "NonPython") =>
                    (sigint' = pre_install[f]
                       /\ \A h \in Handlers : sigint' = h => installed'[h])]_vars
\* The last two calls on the StatusLine were a show() that made a hidden sink
\* visible and an update(c) with non-empty c on the sink still visible, its
\* stream taking writes.
UpdateAfterShow ==
    /\ hsink.prev.op = "show"
    /\ ~hsink.prev.before.visible
    /\ hsink.last.op = "update"
    /\ hsink.last.c # <<>>
    /\ hsink.last.before.visible
    /\ hsink.last.stream = "ok"

\* C36: the first update(c) with non-empty c after a show() that made the sink
\* visible again writes c to the stream, also when c is the content of the last
\* update before the sink was hidden.
C36_UpdateAfterShowWrites ==
    UpdateAfterShow => hsink.last.wrote > 0

\* The part of C36 that holds: that update writes when its content differs
\* from the content the sink remembers.
C36_NewContentAfterShowWrites ==
    (UpdateAfterShow /\ Truncate(hsink.last.c) # hsink.last.before.last) =>
        hsink.last.wrote > 0
\* The last call was on_session_end or the cleanup of mount.
Stopped == m_call.op \in {"on_session_end", "cleanup"}

\* C37: in the hook that refreshes from a thread, on a terminal that supports
\* the status line, on_session_end and the cleanup of mount return without
\* raising and leave _running false and status_line unset, and while the
\* display runs on a stream that takes writes its StatusLine is visible.
C37_StartStopClean ==
    m_enabled =>
       /\ Stopped => (~m_call.raised /\ m_status_line = NoLine)
       /\ (Stopped /\ m_thread = [k \in Tasks |-> "done"]) => ~m_running
       /\ (m_running /\ m_status_line # NoLine /\ stream = "ok") => m_sink.visible

\* The part of C37 that holds: a refresh thread ends only when stop() has
\* cleared _running, and stop() on a hook without a StatusLine does not raise.
C37_StopEndsLoop ==
    /\ [][\A k \in Tasks :
            (m_thread[k] # "done" /\ m_thread'[k] = "done") => ~m_running]_vars
    /\ [][\A op \in {"on_session_end", "cleanup"} :
            (Stop(op) /\ m_status_line = NoLine) => ~m_call'.raised]_vars
====
